---- MODULE Spec2Model ----
(***************************************************************************)
(* A state-machine model of the Broker Bay scraper and booking system.     *)
(*                                                                         *)
(* Strings are sequences of one-character strings, so that Python's        *)
(* substring test (`in`), lower() and concatenation are computed and not   *)
(* assumed.  The browser driver, the page it shows and the CAPTCHA         *)
(* provider are the environment: every call to them draws its outcome      *)
(* with \E from the outcomes the call can have (an element, nothing, an    *)
(* exception).                                                             *)
(***************************************************************************)
EXTENDS Integers, Sequences, FiniteSets, TLC

VARIABLES
    pc,             \* position inside BookingSystem.book_viewing
    property_data,  \* argument: [property_id, url, base_url]
    contact_info,   \* argument: [name, email, phone, message]
    selected_time,  \* argument: [date, time, status] (main.py's booking_data)
    api_key,        \* Config.CAPTCHA_API_KEY is set (CaptchaSolver.solver is not None)
    booking_url,    \* local of book_viewing
    current_url,    \* driver.current_url
    idx,            \* loop position in the selector chain being walked
    fld,            \* loop position over the contact fields
    attempt,        \* loop variable of safe_click
    link,           \* what get_booking_url's link loop saw
    cap,            \* what the CAPTCHA check and solve_captcha saw and did
    form,           \* what fill_booking_form typed, selected and clicked
    ver,            \* what verify_booking saw
    ret,            \* return value of the sub-handler that ran last
    typed_any,      \* some key has been sent to the booking page
    submitted,      \* the submit selectors whose click completed, in order
    trace,          \* the steps of book_viewing begun so far, in order
    result,         \* return value of book_viewing ("none" while running)
    spc,            \* position inside BrokerBayScraper.search_property_by_address
    sidx,           \* loop position in the selector chain being walked
    query,          \* argument: the address searched for
    components,     \* local address_components
    scap,           \* the pages a CAPTCHA was detected on: 0 the home page, i the detail page of result i
    omni,           \* try_omnibox_search: who called it, how often it ran
    searched,       \* the search submissions that succeeded
    rchain,         \* what parse_search_results' selector loop saw
    results,        \* local results
    ri,             \* loop position of find_exact_match in results
    fetched,        \* the pair (detail record, search result) merged last
    property,       \* the record returned by search_property_by_address
    sresult,        \* how search_property_by_address ended ("none" while running)
    caught,         \* the except clause of the running top-level operation ran
    dpc,            \* position of a primitive called on its own
    prim,           \* which primitive, and whether the provider key is configured
    tries,          \* attempts the primitive has made
    clicks,         \* script-level clicks safe_click has executed
    outcomes,       \* what each attempt met
    dret,           \* value safe_click / safe_send_keys returned ("none" while running)
    answer,         \* how the CaptchaSolver method ended
    raw_text,       \* argument of parse_property_address
    ntok,           \* tokens raw_text is made of
    address_out,    \* record parse_property_address returned
    time_slot,      \* what parse_time_slot returned for raw_text
    time_again,     \* what parse_time_slot returned for the time of time_slot
    start_date,     \* argument of generate_7_day_schedule / datetime.now()
    property_rec,   \* argument of get_7_day_schedule
    schedule,       \* the schedule returned
    apc,            \* "ready" once an AntiDetection object is constructed
    proxy_list,     \* Config.PROXY_LIST
    anti,           \* the AntiDetection object: session and proxy_index
    prior,          \* the session that was active before the last reset
    created,        \* number of requests.Session objects created
    rotate_calls,   \* number of rotate_proxy() calls made from outside
    rotated,        \* the proxies each rotation set, in order
    select_el,      \* what wait_for_element gave select_time_option
    requested,      \* the time_value asked for
    selection,      \* what select_time_option returned and selected
    pauses,         \* the random_delay taken after each attempt of safe_click
    search_submitted, \* a search was submitted in this run (omnibox or form)
    markup,         \* the elements of the html given to parse_showing_times
    showing_times,  \* the list parse_showing_times returned
    clock,          \* hour and minute given to format_time_display
    display_text,   \* the text format_time_display returned
    display_slot,   \* what parse_time_slot made of display_text
    mpc,            \* position inside main.book_viewing
    saved,          \* the rows handed to DataManager.save_booking, in order
    bookings,       \* the rows of the bookings table
    main_result     \* what main.book_viewing returned

bvars == << pc, property_data, contact_info, selected_time, api_key,
            booking_url, current_url, idx, fld, attempt, link, cap, form, ver,
            ret, typed_any, submitted, trace, result >>

svars == << spc, sidx, query, components, scap, omni, searched, rchain, results,
            ri, fetched, property, sresult >>

dvars == << dpc, prim, tries, clicks, outcomes, dret, answer, raw_text, ntok, address_out >>

tvars == << time_slot, time_again, start_date, property_rec, schedule >>
avars == << apc, proxy_list, anti, prior, created, rotate_calls, rotated >>
xvars == << select_el, requested, selection, pauses, search_submitted,
            markup, showing_times, clock, display_text, display_slot >>

mvars == << mpc, saved, bookings, main_result >>

vars == << bvars, svars, caught, dvars, tvars, avars, xvars, mvars >>

-----------------------------------------------------------------------------
(* Strings                                                                 *)

EmptyStr == << >>

UpperLetters == <<"A","B","C","D","E","F","G","H","I","J","K","L","M",
                  "N","O","P","Q","R","S","T","U","V","W","X","Y","Z">>
LowerLetters == <<"a","b","c","d","e","f","g","h","i","j","k","l","m",
                  "n","o","p","q","r","s","t","u","v","w","x","y","z">>

\* Python: str.lower(), one character
LowerOf == [ c \in { UpperLetters[i] : i \in 1..Len(UpperLetters) } |->
               LowerLetters[CHOOSE i \in 1..Len(UpperLetters) : UpperLetters[i] = c] ]
lower_char(c) == IF c \in DOMAIN LowerOf THEN LowerOf[c] ELSE c

lower(s) == SubSeq([i \in 1..Len(s) |-> lower_char(s[i])], 1, Len(s))

\* Python: w in s
contains(s, w) ==
    \E i \in 0..(Len(s) - Len(w)) : SubSeq(s, i + 1, i + Len(w)) = w

\* Python: any(word in s for word in words)
any_word_in(words, s) == \E w \in words : contains(s, w)

kw_success   == <<"s","u","c","c","e","s","s">>
kw_confirm   == <<"c","o","n","f","i","r","m">>
kw_confirmed == <<"c","o","n","f","i","r","m","e","d">>
kw_booked    == <<"b","o","o","k","e","d">>
kw_scheduled == <<"s","c","h","e","d","u","l","e","d">>

s_book     == <<"/","b","o","o","k","/">>
s_7        == <<"7">>
s_listing  == <<"/","p">>
s_base     == <<"h",":","/","/","b">>
s_viewing  == <<"/","v","i","e","w","i","n","g","/">>
s_href     == <<"/","s","l","o","t","s">>
s_ok       == <<"/","o","k">>
s_Success  == <<"/","S","u","c","c","e","s","s">>
s_confirm  == <<"/","c","o","n","f","i","r","m">>
s_Booked   == <<"B","o","o","k","e","d">>
s_Confirm  == <<"C","o","n","f","i","r","m">>
s_x        == <<"x">>
s_key      == <<"k">>
s_token    == <<"t","o","k">>

s_q_toronto == <<"9"," ","Z"," ","S","t",","," ","T","o","r","o","n","t","o",","," ","O","N">>
s_q_loft    == <<"L","o","f","t">>
s_a_toronto == <<"1"," ","A"," ","S","t",","," ","T","o","r","o","n","t","o",","," ","O","N">>
s_a_TORONTO == <<"2"," ","B"," ","S","t",","," ","T","O","R","O","N","T","O",","," ","O","n","t","a","r","i","o">>
s_a_ottawa  == <<"3"," ","C"," ","S","t",","," ","O","t","t","a","w","a",","," ","O","N">>
s_a_condo   == <<"C","o","n","d","o">>
s_price     == <<"$","1">>
s_rent      == <<"R","e","n","t"," ","$","2",",","5","0","0","/","m","o">>
s_call      == <<"c","a","l","l">>
s_nice      == <<"n","i","c","e">>
s_h1 == <<"<","1",">">>
s_h2 == <<"<","2",">">>
s_h3 == <<"<","3",">">>
s_h4 == <<"<","4",">">>
s_h5 == <<"<","5",">">>
s_r1 == <<"r","1">>
s_r2 == <<"r","2">>
s_l1 == <<"/","l","1">>
s_l2 == <<"/","l","2">>
s_d1 == <<" ","d","1"," ">>
s_d2 == <<"d","2">>
s_t_street == <<"1"," ","S","t",","," ">>
s_t_oneida == <<"O","n","e","i","d","a",","," ">>
s_t_toronto == <<"T","o","r","o","n","t","o",","," ">>
s_t_on == <<"O","N"," ">>
s_t_ontario == <<"O","n","t","a","r","i","o"," ">>
s_t_postal == <<"T","2","N"," ","1","N","4">>
s_t_unit == <<"b","2","b","1","c","3"," ">>
s_t_bc == <<"B","C"," ">>
s_ex_toronto == <<"1","0"," ","N","a","v","y"," ","W","h","a","r","f"," ","C","o","u","r","t"," ","#","3","2","0","9",","," ","T","o","r","o","n","t","o",","," ","O","N">>
s_ex_calgary == <<"1","2","3"," ","M","a","i","n"," ","S","t",","," ","C","a","l","g","a","r","y",","," ","A","l","b","e","r","t","a"," ","T","2","N"," ","1","N","4">>
s_house     == <<"H","o","u","s","e">>

-----------------------------------------------------------------------------
(* PropertyParser.parse_property_address                                   *)

Digits       == { "0","1","2","3","4","5","6","7","8","9" }
Whitespace   == { " ", "\t", "\n" }

IsUpperLetter(c) == c \in DOMAIN LowerOf
IsDigit(c)       == c \in Digits

\* Python: str.upper(), one character
UpperOf == [ c \in { LowerLetters[i] : i \in 1..Len(LowerLetters) } |->
               UpperLetters[CHOOSE i \in 1..Len(LowerLetters) : LowerLetters[i] = c] ]
upper_char(c) == IF c \in DOMAIN UpperOf THEN UpperOf[c] ELSE c

upper(s) == SubSeq([i \in 1..Len(s) |-> upper_char(s[i])], 1, Len(s))

\* Python: str.strip()
strip(s) ==
    LET keep == { i \in 1..Len(s) : s[i] \notin Whitespace }
    IN  IF keep = {} THEN EmptyStr
        ELSE SubSeq(s, CHOOSE i \in keep : \A k \in keep : i <= k,
                       CHOOSE i \in keep : \A k \in keep : i >= k)

\* the least element of a non-empty set of positions
MinOf(set) == CHOOSE i \in set : \A k \in set : i <= k

\* the first position at or after p that holds no whitespace (Len(s)+1 if none)
SkipWhitespace(s, p) ==
    MinOf({ q \in p..(Len(s) + 1) : q = Len(s) + 1 \/ s[q] \notin Whitespace })

\* s has w at position p
HasAt(s, p, w) == p + Len(w) - 1 <= Len(s) /\ SubSeq(s, p, p + Len(w) - 1) = w

\* self.province_names, in insertion order, and self.canadian_provinces
province_names ==
    << [name |-> <<"A","l","b","e","r","t","a">>,
        code |-> <<"A","B">>],
       [name |-> <<"B","r","i","t","i","s","h"," ","C","o","l","u","m","b","i","a">>,
        code |-> <<"B","C">>],
       [name |-> <<"M","a","n","i","t","o","b","a">>,
        code |-> <<"M","B">>],
       [name |-> <<"N","e","w"," ","B","r","u","n","s","w","i","c","k">>,
        code |-> <<"N","B">>],
       [name |-> <<"N","e","w","f","o","u","n","d","l","a","n","d"," ","a","n","d"," ","L","a","b","r","a","d","o","r">>,
        code |-> <<"N","L">>],
       [name |-> <<"N","o","v","a"," ","S","c","o","t","i","a">>,
        code |-> <<"N","S">>],
       [name |-> <<"N","o","r","t","h","w","e","s","t"," ","T","e","r","r","i","t","o","r","i","e","s">>,
        code |-> <<"N","T">>],
       [name |-> <<"N","u","n","a","v","u","t">>,
        code |-> <<"N","U">>],
       [name |-> <<"O","n","t","a","r","i","o">>,
        code |-> <<"O","N">>],
       [name |-> <<"P","r","i","n","c","e"," ","E","d","w","a","r","d"," ","I","s","l","a","n","d">>,
        code |-> <<"P","E">>],
       [name |-> <<"Q","u","e","b","e","c">>,
        code |-> <<"Q","C">>],
       [name |-> <<"S","a","s","k","a","t","c","h","e","w","a","n">>,
        code |-> <<"S","K">>],
       [name |-> <<"Y","u","k","o","n">>,
        code |-> <<"Y","T">>] >>
canadian_provinces ==
    << <<"A","B">>, <<"B","C">>, <<"M","B">>, <<"N","B">>, <<"N","L">>, <<"N","S">>, <<"N","T">>, <<"N","U">>, <<"O","N">>, <<"P","E">>, <<"Q","C">>, <<"S","K">>, <<"Y","T">> >>

\* get_province_name: the name of a code, '' when unknown
get_province_name(province_code) ==
    LET hits == { i \in 1..Len(province_names) : province_names[i].code = province_code }
    IN  IF hits = {} THEN EmptyStr ELSE province_names[MinOf(hits)].name

\* re.search(r'([A-Z]\d[A-Z]\s?\d[A-Z]\d)', address_text.upper()): the match
postal_match_at(u, i) ==
    /\ i + 5 <= Len(u)
    /\ IsUpperLetter(u[i]) /\ IsDigit(u[i + 1]) /\ IsUpperLetter(u[i + 2])
    /\ \/ IsDigit(u[i + 3]) /\ IsUpperLetter(u[i + 4]) /\ IsDigit(u[i + 5])
       \/ /\ i + 6 <= Len(u)
          /\ u[i + 3] \in Whitespace
          /\ IsDigit(u[i + 4]) /\ IsUpperLetter(u[i + 5]) /\ IsDigit(u[i + 6])

extract_postal_code_raw(address_text) ==
    LET u    == upper(address_text)
        hits == { i \in 1..Len(u) : postal_match_at(u, i) }
    IN  IF hits = {} THEN EmptyStr
        ELSE LET i == MinOf(hits)
             IN  IF u[i + 3] \in Whitespace THEN SubSeq(address_text, i, i + 6)
                 ELSE SubSeq(address_text, i, i + 5)

\* group(1) of the match: a piece of the upper-cased text
extract_postal_code(address_text) ==
    LET u    == upper(address_text)
        hits == { i \in 1..Len(u) : postal_match_at(u, i) }
    IN  IF hits = {} THEN EmptyStr
        ELSE LET i == MinOf(hits)
             IN  IF u[i + 3] \in Whitespace THEN SubSeq(u, i, i + 6)
                 ELSE SubSeq(u, i, i + 5)

extract_province_codes_first(address_text) ==
    LET address_lower == lower(address_text)
        by_name == { i \in 1..Len(province_names) :
                       contains(address_lower, lower(province_names[i].name)) }
        padded  == <<" ">> \o upper(address_text) \o <<" ">>
        by_code == { i \in 1..Len(canadian_provinces) :
                       contains(padded, <<" ">> \o canadian_provinces[i] \o <<" ">>) }
    IN  IF by_code # {} THEN canadian_provinces[MinOf(by_code)]
        ELSE IF by_name # {} THEN province_names[MinOf(by_name)].code
        ELSE EmptyStr

\* the province loops: full names first, then bare codes between blanks
extract_province(address_text) ==
    LET address_lower == lower(address_text)
        by_name == { i \in 1..Len(province_names) :
                       contains(address_lower, lower(province_names[i].name)) }
        padded  == <<" ">> \o upper(address_text) \o <<" ">>
        by_code == { i \in 1..Len(canadian_provinces) :
                       contains(padded, <<" ">> \o canadian_provinces[i] \o <<" ">>) }
    IN  IF by_name # {} THEN province_names[MinOf(by_name)].code
        ELSE IF by_code # {} THEN canadian_provinces[MinOf(by_code)]
        ELSE EmptyStr

extract_city_any(address_text, province) ==
    LET s      == address_text
        commas == { j \in 2..Len(s) : s[j] = "," /\ s[j - 1] # "," }
    IN  IF commas = {} THEN EmptyStr
        ELSE LET j     == MinOf(commas)
                 start == MinOf({ i \in 1..j : \A k \in i..(j - 1) : s[k] # "," })
             IN  strip(SubSeq(s, start, j - 1))

\* re.search(r'([^,]+),\s*(CODE|Name)', address_text, re.IGNORECASE): group 1
\* is the comma-free run that ends at the first comma followed, after
\* whitespace, by the code or the name in any letter case
extract_city(address_text, province) ==
    LET s      == address_text
        low    == lower(s)
        alts   == { lower(province), lower(get_province_name(province)) }
        commas == { j \in 2..Len(s) :
                      /\ s[j] = ","
                      /\ s[j - 1] # ","
                      /\ \E a \in alts : HasAt(low, SkipWhitespace(s, j + 1), a) }
    IN  IF province = EmptyStr \/ commas = {} THEN EmptyStr
        ELSE LET j     == MinOf(commas)
                 start == MinOf({ i \in 1..j : \A k \in i..(j - 1) : s[k] # "," })
             IN  strip(SubSeq(s, start, j - 1))

\* re.search(r'^(.+?),\s*' + re.escape(city), address_text): group 1 is the
\* shortest prefix that ends before a comma followed, after whitespace, by city
extract_street(address_text, city) ==
    LET s      == address_text
        commas == { j \in 2..Len(s) :
                      /\ s[j] = ","
                      /\ \A k \in 1..(j - 1) : s[k] # "\n"
                      /\ HasAt(s, SkipWhitespace(s, j + 1), city) }
    IN  IF city = EmptyStr \/ commas = {} THEN EmptyStr
        ELSE strip(SubSeq(s, 1, MinOf(commas) - 1))

parse_property_address(address_text) ==
    LET postal   == extract_postal_code(address_text)
        province == extract_province(address_text)
        city     == extract_city(address_text, province)
        street   == extract_street(address_text, city)
    IN  [ street |-> street, city |-> city, province |-> province,
          postal_code |-> postal, full_address |-> strip(address_text) ]

-----------------------------------------------------------------------------
(* Inputs and environment outcomes                                         *)

\* property records as DataManager.get_property gives them: no base_url
PropertyInputs ==
    { [property_id |-> p, url |-> s_listing, base_url |-> EmptyStr] :
        p \in { s_7, kw_booked } }
    \cup { [property_id |-> s_7, url |-> s_listing, base_url |-> s_base] }
    \cup { [property_id |-> EmptyStr, url |-> u, base_url |-> EmptyStr] :
        u \in { EmptyStr, s_listing } }

ContactFields == << "name", "email", "phone", "message" >>
ContactInputs ==
    { [name |-> s_x, email |-> s_x, phone |-> s_x, message |-> s_x],
      [name |-> s_x, email |-> s_x, phone |-> EmptyStr, message |-> EmptyStr] }
TimeInputs ==
    { [date |-> d, time |-> d, status |-> "pending"] : d \in { EmptyStr, s_x } }

\* pages the browser may show after the submit click (besides staying put)
PostUrls     == { s_ok, s_Success, s_confirm }
\* href values of a booking link on the listing page
Hrefs        == { s_href, s_book \o kw_booked }
\* texts of a success-indicator element
ElementTexts == { s_Booked, s_Confirm }

-----------------------------------------------------------------------------
(* Selector chains (their lengths) and retry budget                        *)

NumLinkSelectors     == 6
NumCaptchaSelectors  == 5
GRecaptchaSelector   == 2
NumFieldSelectors    == 4
NumDateSelectors     == 4
NumTimeSelectors     == 3
NumPropertySelectors == 2
NumSubmitSelectors   == 6
NumSuccessSelectors  == 5
NumErrorSelectors    == 3
MaxClickAttempts     == 3

-----------------------------------------------------------------------------
(* Pure pieces of the booking code                                         *)

booking_pattern_url_last(pd) == pd.base_url \o s_viewing \o pd.property_id

\* get_booking_url: the first pattern of booking_patterns is returned
booking_pattern_url(pd) == pd.base_url \o s_book \o pd.property_id

kw_book == <<"b","o","o","k">>

text_indicates_success_prefix(text) ==
    any_word_in({ kw_success, kw_confirm, kw_booked, kw_scheduled }, lower(text))

\* verify_booking: any(word in success_text for word in [...]) on text.lower()
text_indicates_success(text) ==
    any_word_in({ kw_success, kw_confirmed, kw_booked, kw_scheduled }, lower(text))

url_indicates_success_book(url) ==
    any_word_in({ kw_success, kw_confirm, kw_book }, lower(url))

\* verify_booking: any(word in current_url.lower() for word in [...])
url_indicates_success(url) ==
    any_word_in({ kw_success, kw_confirm, kw_booked }, lower(url))

\* book_viewing: except Exception -> return False
\* the exception leaves book_viewing
book_viewing_except_reraise == "raised"

book_viewing_except == "False"

\* what one safe_send_keys call meets: the keys sent, no element, an exception
SendKeysOutcomes == { "typed", "absent", "failed" }

safe_send_keys_always(o) == TRUE

safe_send_keys_never(o) == FALSE

\* safe_send_keys returns True only when every key was sent
safe_send_keys(o) == o = "typed"

ClickOutcomes == { "clicked", "timeout", "raised" }

safe_click_attempt_no_return(o, n) ==
    IF n < MaxClickAttempts THEN "retry"
    ELSE IF o = "clicked" THEN "True"
    ELSE "False"

safe_click_attempt_two(o, n) ==
    IF o = "clicked" THEN "True"
    ELSE IF n < MaxClickAttempts - 1 THEN "retry"
    ELSE "False"

\* safe_click: the random_delay that follows an attempt, in tenths of a
\* second: (0.5, 1.5) after the click, (1, 2) in the except clause, none when
\* wait_for_clickable returned None
NoPause == [ min |-> 0, max |-> 0 ]
delay_after(o) ==
    IF o = "clicked" THEN [ min |-> 5, max |-> 15 ]
    ELSE IF o = "raised" THEN [ min |-> 10, max |-> 20 ]
    ELSE NoPause

\* one attempt of safe_click: the value returned now, or "retry"
safe_click_attempt(o, n) ==
    IF o = "clicked" THEN "True"
    ELSE IF n < MaxClickAttempts THEN "retry"
    ELSE "False"

\* get_booking_url / verify_booking / solve_captcha: except Exception
get_booking_url_except == EmptyStr
verify_booking_except  == "False"
solve_captcha_except   == "False"

\* the method returns None without a word when no key is configured
solver_method_silent(configured, provider_answer) ==
    [ kind |-> "returned", value |-> IF configured THEN provider_answer ELSE EmptyStr ]

\* CaptchaSolver.solve_recaptcha_v2: raises when no key is configured, else
\* returns the provider's code, or None when the provider call fails
solve_recaptcha_v2(configured, provider_answer) ==
    IF ~configured THEN [ kind |-> "raised", value |-> EmptyStr ]
    ELSE [ kind |-> "returned", value |-> provider_answer ]

\* CaptchaSolver.solve_hcaptcha
solve_hcaptcha(configured, provider_answer) ==
    IF ~configured THEN [ kind |-> "raised", value |-> EmptyStr ]
    ELSE [ kind |-> "returned", value |-> provider_answer ]

\* CaptchaSolver.solve_image_captcha
solve_image_captcha(configured, provider_answer) ==
    IF ~configured THEN [ kind |-> "raised", value |-> EmptyStr ]
    ELSE [ kind |-> "returned", value |-> provider_answer ]

\* CaptchaSolver.solve_captcha_from_base64
solve_captcha_from_base64(configured, provider_answer) ==
    IF ~configured THEN [ kind |-> "raised", value |-> EmptyStr ]
    ELSE [ kind |-> "returned", value |-> provider_answer ]

solve_family_no_inject(widget, solved, inject) ==
    IF widget = "error" THEN solve_captcha_except
    ELSE IF widget # "key" THEN "next"
    ELSE IF solved.kind = "raised" THEN solve_captcha_except
    ELSE IF solved.value = EmptyStr THEN "next"
    ELSE "True"

\* solve_captcha, one challenge family, given how the provider method ended:
\* "True", "False", or "next" (fall through)
solve_family(widget, solved, inject) ==
    IF widget = "error" THEN solve_captcha_except
    ELSE IF widget # "key" THEN "next"
    ELSE IF solved.kind = "raised" THEN solve_captcha_except
    ELSE IF solved.value = EmptyStr THEN "next"
    ELSE IF inject = "error" THEN solve_captcha_except
    ELSE "True"

LinkNone == [ evaluated |-> 0, first_match |-> 0, used |-> 0 ]
CapNone  == [ detected_by |-> 0, g_recaptcha |-> "unknown", h_captcha |-> "unknown",
              widgets |-> << >>, calls |-> << >>, injected |-> << >> ]
FormNone == [ typed |-> {}, time_selected |-> FALSE, property_clicked |-> FALSE ]
VerNone  == [ found |-> FALSE, shown |-> {}, error_shown |-> FALSE,
              url_read |-> FALSE, raised |-> FALSE ]

\* the step of book_viewing now running, appended once
Step(name) ==
    IF trace # << >> /\ trace[Len(trace)] = name THEN trace ELSE Append(trace, name)

-----------------------------------------------------------------------------
(* BookingSystem.book_viewing                                              *)

inputs == << property_data, contact_info, selected_time, api_key >>

BInit ==
    /\ pc = "get_booking_url"
    /\ property_data \in PropertyInputs
    /\ contact_info \in ContactInputs
    /\ selected_time \in TimeInputs
    /\ api_key \in BOOLEAN
    /\ booking_url = EmptyStr
    /\ current_url = EmptyStr
    /\ idx = 1
    /\ fld = 1
    /\ attempt = 1
    /\ link = LinkNone
    /\ cap = CapNone
    /\ form = FormNone
    /\ ver = VerNone
    /\ ret = "none"
    /\ typed_any = FALSE
    /\ submitted = << >>
    /\ trace = << >>
    /\ result = "none"

Finish(r) == pc' = "done" /\ result' = r /\ caught' = caught

\* the except clause of book_viewing
Raise == pc' = "done" /\ result' = book_viewing_except /\ caught' = TRUE

\* get_booking_url, property_id known: the deterministic path
ResolveById ==
    /\ pc = "get_booking_url"
    /\ property_data.property_id # EmptyStr
    /\ booking_url' = booking_pattern_url(property_data)
    /\ pc' = "resolved"
    /\ trace' = Step("resolve")
    /\ UNCHANGED << xvars, mvars, avars, tvars, dvars, svars, inputs, current_url, idx, fld, attempt, link, cap, form, ver,
                    ret, typed_any, submitted, result, caught >>

\* get_booking_url, neither property_id nor listing url: return None
ResolveNone ==
    /\ pc = "get_booking_url"
    /\ property_data.property_id = EmptyStr
    /\ property_data.url = EmptyStr
    /\ booking_url' = EmptyStr
    /\ pc' = "resolved"
    /\ trace' = Step("resolve")
    /\ UNCHANGED << xvars, mvars, avars, tvars, dvars, svars, inputs, current_url, idx, fld, attempt, link, cap, form, ver,
                    ret, typed_any, submitted, result, caught >>

\* get_booking_url, no property_id: load the listing page
VisitListing ==
    /\ pc = "get_booking_url"
    /\ property_data.property_id = EmptyStr
    /\ property_data.url # EmptyStr
    /\ trace' = Step("resolve")
    /\ \E o \in { "ok", "error" } :
         IF o = "ok"
         THEN /\ current_url' = property_data.url
              /\ pc' = "link_loop"
              /\ booking_url' = booking_url
         ELSE /\ booking_url' = get_booking_url_except
              /\ pc' = "resolved"
              /\ current_url' = current_url
    /\ idx' = 1
    /\ UNCHANGED << xvars, mvars, avars, tvars, dvars, svars, inputs, fld, attempt, link, cap, form, ver,
                    ret, typed_any, submitted, result, caught >>

LinkOutcomes ==
    { [kind |-> k, href |-> EmptyStr] : k \in { "none", "error", "element" } }
    \cup { [kind |-> "element", href |-> h] : h \in Hrefs }

\* get_booking_url: one iteration of the loop over booking_selectors
BookingLinkStep ==
    /\ pc = "link_loop"
    /\ \E o \in LinkOutcomes :
         /\ link' = [ evaluated   |-> idx,
                      first_match |-> IF link.first_match = 0 /\ o.kind = "element"
                                      THEN idx ELSE link.first_match,
                      used        |-> IF o.kind = "element" /\ o.href # EmptyStr
                                      THEN idx ELSE 0 ]
         /\ CASE o.kind = "error" ->
                   /\ booking_url' = get_booking_url_except
                   /\ pc' = "resolved"
                   /\ idx' = idx
              [] o.kind = "element" /\ o.href # EmptyStr ->
                   /\ booking_url' = o.href
                   /\ pc' = "resolved"
                   /\ idx' = idx
              [] OTHER ->
                   /\ booking_url' = EmptyStr
                   /\ IF idx < NumLinkSelectors
                      THEN pc' = pc /\ idx' = idx + 1
                      ELSE pc' = "resolved" /\ idx' = idx
    /\ UNCHANGED << xvars, mvars, avars, tvars, dvars, svars, inputs, current_url, fld, attempt, cap, form, ver,
                    ret, typed_any, submitted, trace, result, caught >>

\* the '.h-captcha' container of the booking page: none, one without
\* data-sitekey, one with it
HCaptchaWidgets == { "none", "nokey", "key" }

\* the record of a CAPTCHA phase that is over: what the page carries stays
PageOnly(c) == [ CapNone EXCEPT !.h_captcha = c.h_captcha ]

\* book_viewing: if not booking_url: return False; driver.get(booking_url).
\* The page loaded carries an hCaptcha container or not.
Navigate ==
    /\ pc = "resolved"
    /\ IF booking_url = EmptyStr
       THEN /\ Finish("False")
            /\ UNCHANGED << current_url, trace, link, cap >>
       ELSE /\ trace' = Step("navigate")
            /\ link' = LinkNone
            /\ \E o \in { "ok", "error" } :
                 IF o = "ok"
                 THEN /\ current_url' = booking_url
                      /\ \E h \in HCaptchaWidgets : cap' = [ cap EXCEPT !.h_captcha = h ]
                      /\ pc' = "check_for_captcha"
                      /\ result' = result /\ caught' = caught
                 ELSE /\ current_url' = current_url
                      /\ cap' = cap
                      /\ Raise
    /\ idx' = 1
    /\ UNCHANGED << xvars, mvars, avars, tvars, dvars, svars, inputs, booking_url, fld, attempt, form, ver,
                    ret, typed_any, submitted >>

\* check_for_captcha: one iteration of the loop over captcha_selectors;
\* NoSuchElementException is the "absent" outcome, any other exception
\* leaves check_for_captcha and is caught by book_viewing
CheckCaptchaStep ==
    /\ pc = "check_for_captcha"
    /\ trace' = Step("captcha")
    /\ \E o \in { "found", "absent", "error" } :
         /\ cap' = [ cap EXCEPT
                       !.detected_by = IF o = "found" THEN idx ELSE 0,
                       !.g_recaptcha = IF idx = GRecaptchaSelector /\ o # "error"
                                       THEN (IF o = "found" THEN "present" ELSE "absent")
                                       ELSE @ ]
         /\ CASE o = "found" ->
                   pc' = "solve_recaptcha" /\ idx' = 1 /\ result' = result /\ caught' = caught
              [] o = "absent" /\ idx < NumCaptchaSelectors ->
                   pc' = pc /\ idx' = idx + 1 /\ result' = result /\ caught' = caught
              [] o = "absent" /\ idx = NumCaptchaSelectors ->
                   pc' = "fill_contact" /\ idx' = 1 /\ result' = result /\ caught' = caught
              [] o = "error" ->
                   Raise /\ idx' = idx
    /\ fld' = 1
    /\ UNCHANGED << xvars, mvars, avars, tvars, dvars, svars, inputs, booking_url, current_url, attempt, link, form, ver,
                    ret, typed_any, submitted >>

\* what find_element('.g-recaptcha') can give, given what the check saw
WidgetOutcomes(seen) ==
    IF seen = "present" THEN { "nokey", "key", "error" }
    ELSE IF seen = "absent" THEN { "none", "error" }
    ELSE { "none", "nokey", "key", "error" }

\* the provider's answer: a token, or None
ProviderOutcomes == { s_token, EmptyStr }

SolveStep(family, widgets, next_pc) ==
    /\ trace' = Step("solve_captcha")
    /\ \E w \in widgets, sol \in ProviderOutcomes, inj \in { "ok", "error" } :
         LET solved == IF family = "recaptcha" THEN solve_recaptcha_v2(api_key, sol)
                       ELSE solve_hcaptcha(api_key, sol)
             r == solve_family(w, solved, inj)
             called == w = "key"
             injected == called /\ solved.kind = "returned" /\ solved.value # EmptyStr
                         /\ inj = "ok"
         IN  /\ cap' = [ cap EXCEPT
                           !.widgets = Append(@, [ family |-> family, found |-> w ]),
                           !.calls = IF called
                                     THEN Append(@, [ family |-> family, site_key |-> s_key,
                                                      url |-> current_url,
                                                      raised |-> solved.kind = "raised",
                                                      token |-> solved.value ])
                                     ELSE @,
                           !.injected = IF injected THEN Append(@, family) ELSE @ ]
             /\ IF r = "next" /\ next_pc # "captcha_return"
                THEN pc' = next_pc /\ ret' = ret
                ELSE pc' = "captcha_return" /\ ret' = IF r = "True" THEN "True" ELSE "False"
    /\ UNCHANGED << xvars, mvars, avars, tvars, dvars, svars, inputs, booking_url, current_url, idx, fld, attempt, link, form, ver,
                    typed_any, submitted, result, caught >>

\* solve_captcha: the reCAPTCHA block
SolveRecaptcha ==
    /\ pc = "solve_recaptcha"
    /\ SolveStep("recaptcha", WidgetOutcomes(cap.g_recaptcha), "solve_hcaptcha")

\* solve_captcha: the hCaptcha block, then return False
SolveHcaptcha ==
    /\ pc = "solve_hcaptcha"
    /\ SolveStep("hcaptcha", { cap.h_captcha, "error" }, "captcha_return")

CaptchaReturn_ignored ==
    /\ pc = "captcha_return"
    /\ pc' = "fill_contact"
    /\ cap' = IF ret = "True" THEN PageOnly(cap) ELSE cap
    /\ idx' = 1
    /\ fld' = 1
    /\ UNCHANGED << xvars, mvars, avars, tvars, dvars, svars, inputs, booking_url, current_url, attempt, link, form, ver,
                    ret, typed_any, submitted, trace, result, caught >>

\* book_viewing: if not self.solve_captcha(): return False
CaptchaReturn ==
    /\ pc = "captcha_return"
    /\ IF ret = "True"
       THEN pc' = "fill_contact" /\ result' = result /\ caught' = caught
            /\ cap' = PageOnly(cap)
       ELSE Finish("False") /\ cap' = cap
    /\ idx' = 1
    /\ fld' = 1
    /\ UNCHANGED << xvars, mvars, avars, tvars, dvars, svars, inputs, booking_url, current_url, attempt, link, form, ver,
                    ret, typed_any, submitted, trace >>

\* fill_booking_form, contact loop: `if not field_value: continue`
FillContactSkip ==
    /\ pc = "fill_contact"
    /\ contact_info[ContactFields[fld]] = EmptyStr
    /\ trace' = Step("fill")
    /\ IF fld < Len(ContactFields)
       THEN pc' = pc /\ fld' = fld + 1
       ELSE pc' = "fill_date" /\ fld' = fld
    /\ idx' = 1
    /\ UNCHANGED << xvars, mvars, avars, tvars, dvars, svars, inputs, booking_url, current_url, attempt, link, cap, form, ver,
                    ret, typed_any, submitted, result, caught >>

\* fill_booking_form, contact loop: one safe_send_keys over field_selectors
FillContactType ==
    /\ pc = "fill_contact"
    /\ contact_info[ContactFields[fld]] # EmptyStr
    /\ trace' = Step("fill")
    /\ \E o \in SendKeysOutcomes :
         /\ form' = [ form EXCEPT !.typed = IF o = "typed"
                                            THEN @ \cup { ContactFields[fld] } ELSE @ ]
         /\ typed_any' = (typed_any \/ o = "typed")
         /\ IF ~safe_send_keys(o) /\ idx < NumFieldSelectors
            THEN pc' = pc /\ fld' = fld /\ idx' = idx + 1
            ELSE /\ idx' = 1
                 /\ IF fld < Len(ContactFields)
                    THEN pc' = pc /\ fld' = fld + 1
                    ELSE pc' = "fill_date" /\ fld' = fld
    /\ UNCHANGED << xvars, mvars, avars, tvars, dvars, svars, inputs, booking_url, current_url, attempt, link, cap, ver,
                    ret, submitted, result, caught >>

\* select_date_time: the date block
FillDate ==
    /\ pc = "fill_date"
    /\ IF selected_time.date = EmptyStr
       THEN pc' = "fill_time" /\ idx' = 1 /\ UNCHANGED << form, typed_any >>
       ELSE \E o \in SendKeysOutcomes :
              /\ form' = [ form EXCEPT !.typed = IF o = "typed"
                                                 THEN @ \cup { "date" } ELSE @ ]
              /\ typed_any' = (typed_any \/ o = "typed")
              /\ IF ~safe_send_keys(o) /\ idx < NumDateSelectors
                 THEN pc' = pc /\ idx' = idx + 1
                 ELSE pc' = "fill_time" /\ idx' = 1
    /\ UNCHANGED << xvars, mvars, avars, tvars, dvars, svars, inputs, booking_url, current_url, fld, attempt, link, cap, ver,
                    ret, submitted, trace, result, caught >>

\* select_date_time: the time block, one select_time_option per selector;
\* select_date_time then returns True, and fill_booking_form goes on
FillTime ==
    /\ pc = "fill_time"
    /\ IF selected_time.time = EmptyStr
       THEN pc' = "fill_property" /\ idx' = 1 /\ form' = form
       ELSE \E selected \in BOOLEAN :
              /\ form' = [ form EXCEPT !.time_selected = selected ]
              /\ IF ~selected /\ idx < NumTimeSelectors
                 THEN pc' = pc /\ idx' = idx + 1
                 ELSE pc' = "fill_property" /\ idx' = 1
    /\ attempt' = 1
    /\ UNCHANGED << xvars, mvars, avars, tvars, dvars, svars, inputs, booking_url, current_url, fld, link, cap, ver,
                    ret, typed_any, submitted, trace, result, caught >>

\* fill_booking_form: the property block (one attempt of safe_click), return True
FillProperty ==
    /\ pc = "fill_property"
    /\ IF property_data.property_id = EmptyStr
       THEN pc' = "fill_return" /\ ret' = "True" /\ UNCHANGED << idx, attempt, form >>
       ELSE \E o \in ClickOutcomes :
              LET r == safe_click_attempt(o, attempt)
              IN  /\ form' = [ form EXCEPT !.property_clicked = (r = "True") ]
                  /\ CASE r = "retry" ->
                            pc' = pc /\ idx' = idx /\ attempt' = attempt + 1 /\ ret' = ret
                       [] r = "False" /\ idx < NumPropertySelectors ->
                            pc' = pc /\ idx' = idx + 1 /\ attempt' = 1 /\ ret' = ret
                       [] OTHER ->
                            pc' = "fill_return" /\ idx' = idx /\ attempt' = attempt
                            /\ ret' = "True"
    /\ UNCHANGED << xvars, mvars, avars, tvars, dvars, svars, inputs, booking_url, current_url, fld, link, cap, ver,
                    typed_any, submitted, trace, result, caught >>

\* book_viewing: if not booking_success: return False
FillReturn ==
    /\ pc = "fill_return"
    /\ IF ret = "True"
       THEN pc' = "submit" /\ result' = result /\ caught' = caught
       ELSE Finish("False")
    /\ form' = FormNone
    /\ idx' = 1
    /\ attempt' = 1
    /\ UNCHANGED << xvars, mvars, avars, tvars, dvars, svars, inputs, booking_url, current_url, fld, link, cap, ver,
                    ret, typed_any, submitted, trace >>

\* submit_booking: one attempt of safe_click on the selector at idx
SubmitAttempt ==
    /\ pc = "submit"
    /\ trace' = Step("submit")
    /\ \E o \in ClickOutcomes, u \in { current_url } \cup PostUrls :
         LET r == safe_click_attempt(o, attempt)
         IN  /\ submitted' = IF o = "clicked" THEN Append(submitted, idx) ELSE submitted
             /\ current_url' = IF o = "clicked" THEN u ELSE current_url
             /\ CASE r = "True" ->
                       /\ ret' = "True"
                       /\ pc' = "submit_return" /\ idx' = idx /\ attempt' = attempt
                  [] r = "retry" ->
                       /\ attempt' = attempt + 1
                       /\ UNCHANGED << ret, pc, idx >>
                  [] r = "False" /\ idx < NumSubmitSelectors ->
                       /\ idx' = idx + 1 /\ attempt' = 1
                       /\ UNCHANGED << ret, pc >>
                  [] OTHER ->
                       /\ ret' = "False"
                       /\ pc' = "submit_return"
                       /\ UNCHANGED << idx, attempt >>
    /\ UNCHANGED << xvars, mvars, avars, tvars, dvars, svars, inputs, booking_url, fld, link, cap, form, ver,
                    typed_any, result, caught >>

SubmitReturn_ignored ==
    /\ pc = "submit_return"
    /\ pc' = "verify_success"
    /\ idx' = 1
    /\ attempt' = 1
    /\ UNCHANGED << xvars, mvars, avars, tvars, dvars, svars, inputs, booking_url, current_url, fld, link, cap, form, ver,
                    ret, typed_any, submitted, trace, result, caught >>

\* book_viewing: if not submit_success: return False
SubmitReturn ==
    /\ pc = "submit_return"
    /\ IF ret = "True"
       THEN pc' = "verify_success" /\ result' = result /\ caught' = caught
       ELSE Finish("False")
    /\ idx' = 1
    /\ attempt' = 1
    /\ UNCHANGED << xvars, mvars, avars, tvars, dvars, svars, inputs, booking_url, current_url, fld, link, cap, form, ver,
                    ret, typed_any, submitted, trace >>

SuccessOutcomes ==
    { [kind |-> k, text |-> EmptyStr] : k \in { "none", "error", "hidden" } }
    \cup { [kind |-> "shown", text |-> t] : t \in ElementTexts }

\* verify_booking: one iteration of the loop over success_selectors
VerifySuccessStep ==
    /\ pc = "verify_success"
    /\ trace' = Step("verify")
    /\ \E o \in SuccessOutcomes :
         /\ ver' = [ ver EXCEPT
                       !.found  = (@ \/ o.kind \in { "hidden", "shown" }),
                       !.shown  = IF o.kind = "shown" THEN @ \cup { o.text } ELSE @,
                       !.raised = (o.kind = "error") ]
         /\ CASE o.kind = "error" ->
                   pc' = "verify_return" /\ ret' = verify_booking_except /\ idx' = idx
              [] o.kind = "shown" /\ text_indicates_success(o.text) ->
                   pc' = "verify_return" /\ ret' = "True" /\ idx' = idx
              [] OTHER ->
                   /\ ret' = ret
                   /\ IF idx < NumSuccessSelectors
                      THEN pc' = pc /\ idx' = idx + 1
                      ELSE pc' = "verify_error" /\ idx' = 1
    /\ UNCHANGED << xvars, mvars, avars, tvars, dvars, svars, inputs, booking_url, current_url, fld, attempt, link, cap, form,
                    typed_any, submitted, result, caught >>

\* verify_booking: one iteration of the loop over error_selectors
VerifyErrorStep ==
    /\ pc = "verify_error"
    /\ \E o \in { "none", "error", "hidden", "shown" } :
         /\ ver' = [ ver EXCEPT !.found = (@ \/ o \in { "hidden", "shown" }),
                                !.error_shown = (o = "shown"),
                                !.raised = (o = "error") ]
         /\ CASE o = "error" ->
                   pc' = "verify_return" /\ ret' = verify_booking_except /\ idx' = idx
              [] o = "shown" ->
                   pc' = "verify_return" /\ ret' = "False" /\ idx' = idx
              [] OTHER ->
                   /\ ret' = ret
                   /\ IF idx < NumErrorSelectors
                      THEN pc' = pc /\ idx' = idx + 1
                      ELSE pc' = "verify_url" /\ idx' = 1
    /\ UNCHANGED << xvars, mvars, avars, tvars, dvars, svars, inputs, booking_url, current_url, fld, attempt, link, cap, form,
                    typed_any, submitted, trace, result, caught >>

\* verify_booking: the URL check, then return False
VerifyUrl ==
    /\ pc = "verify_url"
    /\ \E o \in { "ok", "error" } :
         /\ ver' = [ ver EXCEPT !.url_read = (o = "ok"), !.raised = (o = "error") ]
         /\ ret' = IF o = "error" THEN verify_booking_except
                   ELSE IF url_indicates_success(current_url) THEN "True"
                   ELSE "False"
    /\ pc' = "verify_return"
    /\ UNCHANGED << xvars, mvars, avars, tvars, dvars, svars, inputs, booking_url, current_url, idx, fld, attempt, link, cap, form,
                    typed_any, submitted, trace, result, caught >>

\* book_viewing: return True if verification_success else False
VerifyReturn ==
    /\ pc = "verify_return"
    /\ Finish(IF ret = "True" THEN "True" ELSE "False")
    /\ UNCHANGED << xvars, mvars, avars, tvars, dvars, svars, inputs, booking_url, current_url, idx, fld, attempt, link, cap, form,
                    ver, ret, typed_any, submitted, trace >>

BNext ==
    \/ ResolveById
    \/ ResolveNone
    \/ VisitListing
    \/ BookingLinkStep
    \/ Navigate
    \/ CheckCaptchaStep
    \/ SolveRecaptcha
    \/ SolveHcaptcha
    \/ CaptchaReturn
    \/ FillContactSkip
    \/ FillContactType
    \/ FillDate
    \/ FillTime
    \/ FillProperty
    \/ FillReturn
    \/ SubmitAttempt
    \/ SubmitReturn
    \/ VerifySuccessStep
    \/ VerifyErrorStep
    \/ VerifyUrl
    \/ VerifyReturn

-----------------------------------------------------------------------------
(* Selector chains of the search code (their lengths)                      *)

NumOmniboxSelectors       == 5
NumAddressSelectors       == 5
NumCitySelectors          == 5
NumProvinceSelectors      == 4
NumSearchSubmitSelectors  == 5
NumSitewideLinks          == 3
NumResultSelectors        == 6

\* the longest result list a page of the model shows
MaxResults == 2

-----------------------------------------------------------------------------
(* Pages: what the selectors find on them                                  *)

\* an element as a selector lookup gives it: kind is "none" (no match),
\* "error" (the lookup raised) or "element"
NoElem       == [ kind |-> "none",    attr |-> EmptyStr, text |-> EmptyStr ]
ErrElem      == [ kind |-> "error",   attr |-> EmptyStr, text |-> EmptyStr ]
Elem(a, t)   == [ kind |-> "element", attr |-> a,        text |-> t ]

\* the index of the last locator of a chain that matches, 0 when none does
last_match(chain) ==
    IF \A i \in 1..Len(chain) : chain[i].kind # "element" THEN 0
    ELSE CHOOSE i \in 1..Len(chain) :
           /\ chain[i].kind = "element"
           /\ \A j \in (i + 1)..Len(chain) : chain[j].kind # "element"

\* for selector in selectors: element = lookup(selector); if element: ... break
\* the index of the first locator of a chain that matches, 0 when none does
first_match(chain) ==
    IF \A i \in 1..Len(chain) : chain[i].kind # "element" THEN 0
    ELSE CHOOSE i \in 1..Len(chain) :
           /\ chain[i].kind = "element"
           /\ \A j \in 1..(i - 1) : chain[j].kind # "element"

select_first(chain) ==
    IF first_match(chain) = 0 THEN NoElem ELSE chain[first_match(chain)]

\* re.search(r'[\$]?[\d,]+', text): the leftmost, longest match, '' when none
IsPriceChar(c) == IsDigit(c) \/ c = ","

price_starts_at(t, i) ==
    \/ IsPriceChar(t[i])
    \/ t[i] = "$" /\ i < Len(t) /\ IsPriceChar(t[i + 1])

price_end(t, i) ==
    LET first == IF t[i] = "$" THEN i + 1 ELSE i
        stops == { j \in first..Len(t) : ~IsPriceChar(t[j]) }
    IN  IF stops = {} THEN Len(t) ELSE MinOf(stops) - 1

price_search(t) ==
    LET starts == { i \in 1..Len(t) : price_starts_at(t, i) }
    IN  IF starts = {} THEN EmptyStr
        ELSE SubSeq(t, MinOf(starts), price_end(t, MinOf(starts)))

\* PropertyParser.parse_property_details on a listing detail page.  The page
\* is given by what each selector of each chain finds in it; details holds
\* what the three regular expressions extract from the details block.
parse_property_details(page) ==
    LET id_el    == select_first(page.ids)
        price_el == select_first(page.prices)
        det_el   == first_match(page.details)
        type_el  == select_first(page.types)
        desc_el  == select_first(page.descs)
    IN  [ property_id   |-> IF id_el.kind # "element" THEN EmptyStr
                            ELSE IF id_el.attr # EmptyStr THEN id_el.attr
                            ELSE strip(id_el.text),
          address       |-> EmptyStr,
          price         |-> IF price_el.kind # "element" THEN EmptyStr
                            ELSE price_search(strip(price_el.text)),
          bedrooms      |-> IF det_el = 0 THEN EmptyStr ELSE page.details[det_el].bedrooms,
          bathrooms     |-> IF det_el = 0 THEN EmptyStr ELSE page.details[det_el].bathrooms,
          square_feet   |-> IF det_el = 0 THEN EmptyStr ELSE page.details[det_el].square_feet,
          property_type |-> IF type_el.kind # "element" THEN EmptyStr ELSE strip(type_el.text),
          description   |-> IF desc_el.kind # "element" THEN EmptyStr ELSE strip(desc_el.text),
          images        |-> page.images,
          agent_info    |-> << >>,
          showing_times |-> << >>,
          raw_html      |-> page.html ]

\* dict.setdefault for every key of r: the values of d are kept
update_keep(d, r) ==
    [ k \in DOMAIN d \cup DOMAIN r |-> IF k \in DOMAIN d THEN d[k] ELSE r[k] ]

\* dict.update: d.update(r)
update(d, r) ==
    [ k \in DOMAIN d \cup DOMAIN r |-> IF k \in DOMAIN r THEN r[k] ELSE d[k] ]

\* the first non-empty attribute of id_attrs, '' when none is set
first_attr(attrs) ==
    IF \A i \in 1..Len(attrs) : attrs[i] = EmptyStr THEN EmptyStr
    ELSE attrs[MinOf({ i \in 1..Len(attrs) : attrs[i] # EmptyStr })]

\* BrokerBayScraper.extract_result_data: the list holding the record, or the
\* empty list when the element went stale and None is returned.  A lookup
\* that raises counts as no match (except Exception: continue).
extract_result_data(element) ==
    LET addr_el  == select_first(element.addrs)
        price_el == select_first(element.prices)
    IN  IF element.stale THEN << >>
        ELSE << [ property_id |-> first_attr(element.id_attrs),
                  address     |-> IF addr_el.kind # "element" THEN EmptyStr
                                  ELSE strip(IF addr_el.text # EmptyStr
                                             THEN addr_el.text ELSE addr_el.attr),
                  price       |-> IF price_el.kind # "element" THEN EmptyStr
                                  ELSE strip(price_el.text),
                  link        |-> IF element.anchor.kind = "element"
                                  THEN element.anchor.attr ELSE EmptyStr,
                  raw_html    |-> element.html ] >>

RECURSIVE extract_all(_)
\* parse_search_results: the records of the elements, those returning None left out
extract_all(elements) ==
    IF elements = << >> THEN << >>
    ELSE extract_result_data(Head(elements)) \o extract_all(Tail(elements))

\* the condition with the cities compared case-sensitively
is_exact_match_case(result_address, address_components) ==
    /\ result_address.city = address_components.city
    /\ result_address.province = address_components.province

\* find_exact_match: the condition on one result
is_exact_match(result_address, address_components) ==
    /\ lower(result_address.city) = lower(address_components.city)
    /\ result_address.province = address_components.province

RECURSIVE safe_click_from(_, _)
\* safe_click: the attempts in order until one returns
safe_click_from(os, n) ==
    LET r == safe_click_attempt(os[n], n)
    IN  IF r = "retry" THEN safe_click_from(os, n + 1) ELSE r

safe_click(os) == safe_click_from(os, 1) = "True"

ClickRuns == [ 1..MaxClickAttempts -> ClickOutcomes ]

-----------------------------------------------------------------------------
(* Inputs and pages of the search                                          *)

Queries == { s_q_toronto, s_q_loft }

NoAddr == << NoElem, NoElem, NoElem, NoElem >>
NoPrice == << NoElem, NoElem, NoElem >>
NoIds == << EmptyStr, EmptyStr, EmptyStr >>

\* result elements of a results page: the attributes of id_attrs, what the
\* address and price selectors find inside, the anchor, the outer HTML
ResultElements ==
    { [ stale |-> FALSE, html |-> s_h1, id_attrs |-> << EmptyStr, s_r1, s_r2 >>,
        addrs  |-> << NoElem, Elem(EmptyStr, s_a_toronto), Elem(EmptyStr, s_a_ottawa), NoElem >>,
        prices |-> << ErrElem, Elem(EmptyStr, s_price), NoElem >>,
        anchor |-> Elem(s_l1, EmptyStr) ],
      [ stale |-> FALSE, html |-> s_h2, id_attrs |-> NoIds,
        addrs  |-> << ErrElem, NoElem, NoElem, Elem(s_a_TORONTO, EmptyStr) >>,
        prices |-> NoPrice,
        anchor |-> Elem(s_l2, EmptyStr) ],
      [ stale |-> FALSE, html |-> s_h3, id_attrs |-> << s_r2, EmptyStr, EmptyStr >>,
        addrs  |-> << Elem(EmptyStr, s_a_ottawa), NoElem, NoElem, NoElem >>,
        prices |-> NoPrice,
        anchor |-> Elem(s_l1, EmptyStr) ],
      [ stale |-> FALSE, html |-> s_h4, id_attrs |-> NoIds,
        addrs  |-> NoAddr, prices |-> NoPrice, anchor |-> NoElem ],
      [ stale |-> FALSE, html |-> s_h5, id_attrs |-> NoIds,
        addrs  |-> << NoElem, NoElem, Elem(EmptyStr, s_a_condo), NoElem >>,
        prices |-> NoPrice,
        anchor |-> ErrElem ],
      [ stale |-> TRUE, html |-> EmptyStr, id_attrs |-> NoIds,
        addrs  |-> NoAddr, prices |-> NoPrice, anchor |-> NoElem ] }

RECURSIVE ListsUpTo(_, _)
ListsUpTo(S, n) ==
    IF n = 0 THEN { << >> }
    ELSE LET shorter == ListsUpTo(S, n - 1)
         IN  shorter \cup { Append(l, e) : l \in shorter, e \in S }

\* what find_elements gives for one result selector
ResultLists == ListsUpTo(ResultElements, MaxResults)

NoDetails == [ kind |-> "none", bedrooms |-> EmptyStr, bathrooms |-> EmptyStr,
               square_feet |-> EmptyStr ]

\* listing detail pages
DetailPages ==
    { [ html    |-> s_d1,
        ids     |-> << NoElem, Elem(EmptyStr, s_d1), Elem(EmptyStr, s_d2) >>,
        prices  |-> << NoElem, NoElem, Elem(EmptyStr, s_rent), Elem(EmptyStr, s_price) >>,
        details |-> << NoDetails,
                       [ kind |-> "element", bedrooms |-> s_7, bathrooms |-> s_7,
                         square_feet |-> s_7 ],
                       NoDetails >>,
        types   |-> << Elem(EmptyStr, s_house), NoElem, Elem(EmptyStr, s_nice) >>,
        descs   |-> << NoElem, NoElem, Elem(EmptyStr, s_nice) >>,
        images  |-> << s_l1 >>,
        slots   |-> << s_x >> ],
      [ html    |-> s_d2,
        ids     |-> << Elem(s_d2, s_d1), NoElem, NoElem >>,
        prices  |-> << Elem(EmptyStr, s_call), Elem(EmptyStr, s_price), NoElem, NoElem >>,
        details |-> << NoDetails, NoDetails, NoDetails >>,
        types   |-> << NoElem, NoElem, NoElem >>,
        descs   |-> << NoElem, NoElem, NoElem >>,
        images  |-> << >>,
        slots   |-> << >> ],
      [ html    |-> s_x,
        ids     |-> << NoElem, NoElem, NoElem >>,
        prices  |-> << NoElem, NoElem, NoElem, NoElem >>,
        details |-> << NoDetails, NoDetails, NoDetails >>,
        types   |-> << NoElem, NoElem, NoElem >>,
        descs   |-> << NoElem, NoElem, NoElem >>,
        images  |-> << >>,
        slots   |-> << >> ] }


-----------------------------------------------------------------------------
(* BrokerBayScraper.search_property_by_address                             *)

\* search_property_by_address: except Exception: return None
search_property_by_address_except == "None"
\* parse_search_results: except Exception: return []
parse_search_results_except == << >>

OmniNone    == [ caller |-> "none", runs |-> 0 ]
ChainNone   == [ evaluated |-> 0, first_match |-> 0, used |-> 0 ]
FetchedNone == [ page |-> << >>, detail |-> << >>, result |-> << >>, failed |-> {} ]
\* get_property_details returned None for result i, at the named call
Failed(i, call) == [ i |-> i, at |-> call ]

SInit ==
    /\ spc = "start"
    /\ query \in Queries
    /\ components = << >>
    /\ sidx = 1
    /\ scap = {}
    /\ omni = OmniNone
    /\ searched = << >>
    /\ rchain = ChainNone
    /\ results = << >>
    /\ ri = 1
    /\ fetched = FetchedNone
    /\ property = << >>
    /\ sresult = "none"

\* no search running
SIdle ==
    /\ spc = "idle"
    /\ query = EmptyStr
    /\ components = << >>
    /\ sidx = 1
    /\ scap = {}
    /\ omni = OmniNone
    /\ searched = << >>
    /\ rchain = ChainNone
    /\ results = << >>
    /\ ri = 1
    /\ fetched = FetchedNone
    /\ property = << >>
    /\ sresult = "none"

\* no booking running
BIdle ==
    /\ pc = "idle"
    /\ property_data = [ property_id |-> EmptyStr, url |-> EmptyStr, base_url |-> EmptyStr ]
    /\ contact_info = [ name |-> EmptyStr, email |-> EmptyStr, phone |-> EmptyStr,
                        message |-> EmptyStr ]
    /\ selected_time = [ date |-> EmptyStr, time |-> EmptyStr, status |-> "pending" ]
    /\ api_key = FALSE
    /\ booking_url = EmptyStr
    /\ current_url = EmptyStr
    /\ idx = 1
    /\ fld = 1
    /\ attempt = 1
    /\ link = LinkNone
    /\ cap = CapNone
    /\ form = FormNone
    /\ ver = VerNone
    /\ ret = "none"
    /\ typed_any = FALSE
    /\ submitted = << >>
    /\ trace = << >>
    /\ result = "none"

SFinish(r) == spc' = "done" /\ sresult' = r /\ caught' = caught

\* the except clause of search_property_by_address
SRaise == spc' = "done" /\ sresult' = search_property_by_address_except /\ caught' = TRUE

\* parse the address, load the home page
SearchStart ==
    /\ spc = "start"
    /\ components' = parse_property_address(query)
    /\ \E o \in { "ok", "error" } :
         IF o = "ok"
         THEN spc' = "check_for_captcha" /\ UNCHANGED << sresult, caught >>
         ELSE SRaise
    /\ UNCHANGED << xvars, mvars, avars, tvars, dvars, bvars, sidx, query, scap, omni, searched, rchain, results, ri,
                    fetched, property >>

SearchCaptchaStep_abort ==
    /\ spc = "check_for_captcha"
    /\ \E o \in { "found", "absent", "error" } :
         CASE o = "found" ->
                /\ scap' = scap \cup { 0 }
                /\ SFinish("None")
                /\ UNCHANGED << sidx, omni >>
           [] o = "absent" /\ sidx < NumCaptchaSelectors ->
                /\ sidx' = sidx + 1
                /\ UNCHANGED << spc, scap, omni, sresult, caught >>
           [] o = "absent" /\ sidx = NumCaptchaSelectors ->
                /\ spc' = "omnibox" /\ sidx' = 1
                /\ omni' = [ caller |-> "main", runs |-> 1 ]
                /\ UNCHANGED << scap, sresult, caught >>
           [] o = "error" ->
                SRaise /\ UNCHANGED << sidx, scap, omni >>
    /\ UNCHANGED << xvars, mvars, avars, tvars, dvars, bvars, query, components, searched, rchain, results, ri,
                    fetched, property >>

\* check_for_captcha on the home page, one selector: informational only;
\* an exception other than NoSuchElementException reaches the except
\* clause of search_property_by_address
SearchCaptchaStep ==
    /\ spc = "check_for_captcha"
    /\ \E o \in { "found", "absent", "error" } :
         CASE o = "found" ->
                /\ scap' = scap \cup { 0 }
                /\ spc' = "omnibox" /\ sidx' = 1
                /\ omni' = [ caller |-> "main", runs |-> 1 ]
                /\ UNCHANGED << sresult, caught >>
           [] o = "absent" /\ sidx < NumCaptchaSelectors ->
                /\ sidx' = sidx + 1
                /\ UNCHANGED << spc, scap, omni, sresult, caught >>
           [] o = "absent" /\ sidx = NumCaptchaSelectors ->
                /\ spc' = "omnibox" /\ sidx' = 1
                /\ omni' = [ caller |-> "main", runs |-> 1 ]
                /\ UNCHANGED << scap, sresult, caught >>
           [] o = "error" ->
                SRaise /\ UNCHANGED << sidx, scap, omni >>
    /\ UNCHANGED << xvars, mvars, avars, tvars, dvars, bvars, query, components, searched, rchain, results, ri,
                    fetched, property >>

\* try_omnibox_search, one selector: type, click submit, else submit the form
\* of the input itself
omnibox_submitted(k, c, w, s) ==
    safe_send_keys(k) /\ (safe_click(c) \/ (w = "element" /\ s = "ok"))

OmniboxStep ==
    /\ spc = "omnibox"
    /\ \E k \in SendKeysOutcomes, c \in ClickRuns,
          w \in { "element", "none", "error" }, s \in { "ok", "raised" } :
         IF omnibox_submitted(k, c, w, s)
         THEN /\ searched' = Append(searched, [ by |-> "omnibox", ok |-> TRUE ])
              /\ search_submitted' = TRUE
              /\ spc' = "parse_results" /\ sidx' = 1
         ELSE IF sidx < NumOmniboxSelectors
         THEN /\ sidx' = sidx + 1
              /\ UNCHANGED << spc, searched, search_submitted >>
         ELSE /\ searched' = Append(searched, [ by |-> "omnibox", ok |-> FALSE ])
              /\ search_submitted' = search_submitted
              /\ spc' = IF omni.caller = "main" THEN "fill_address" ELSE "parse_results"
              /\ sidx' = 1
    /\ UNCHANGED << select_el, requested, selection, pauses, markup, showing_times, clock, display_text, display_slot, mvars, avars, tvars, dvars, bvars, query, components, scap, omni, rchain, results, ri,
                    fetched, property, sresult, caught >>

\* fill_search_form: where to go after the address / the city field
after_address == IF components.city # EmptyStr THEN "fill_city"
                 ELSE IF components.province # EmptyStr THEN "fill_province"
                 ELSE "search_submit"
after_city    == IF components.province # EmptyStr THEN "fill_province"
                 ELSE "search_submit"

\* fill_search_form, one selector of address_selectors
FillSearchAddress ==
    /\ spc = "fill_address"
    /\ \E k \in SendKeysOutcomes :
         IF safe_send_keys(k) \/ sidx = NumAddressSelectors
         THEN spc' = after_address /\ sidx' = 1
         ELSE spc' = spc /\ sidx' = sidx + 1
    /\ UNCHANGED << xvars, mvars, avars, tvars, dvars, bvars, query, components, scap, omni, searched, rchain, results,
                    ri, fetched, property, sresult, caught >>

\* fill_search_form, one selector of city_selectors
FillSearchCity ==
    /\ spc = "fill_city"
    /\ \E k \in SendKeysOutcomes :
         IF safe_send_keys(k) \/ sidx = NumCitySelectors
         THEN spc' = after_city /\ sidx' = 1
         ELSE spc' = spc /\ sidx' = sidx + 1
    /\ UNCHANGED << xvars, mvars, avars, tvars, dvars, bvars, query, components, scap, omni, searched, rchain, results,
                    ri, fetched, property, sresult, caught >>

\* select_province: the dropdown is found and one of the two selections works
select_province(w, by_value, by_text) == w = "element" /\ (by_value \/ by_text)

FillSearchProvince ==
    /\ spc = "fill_province"
    /\ \E w \in { "element", "none", "error" }, v \in BOOLEAN, t \in BOOLEAN :
         IF select_province(w, v, t) \/ sidx = NumProvinceSelectors
         THEN spc' = "search_submit" /\ sidx' = 1
         ELSE spc' = spc /\ sidx' = sidx + 1
    /\ UNCHANGED << xvars, mvars, avars, tvars, dvars, bvars, query, components, scap, omni, searched, rchain, results,
                    ri, fetched, property, sresult, caught >>

\* fill_search_form, one selector of submit_selectors
SearchSubmitStep ==
    /\ spc = "search_submit"
    /\ \E c \in ClickRuns :
         IF safe_click(c)
         THEN /\ searched' = Append(searched, [ by |-> "form", ok |-> TRUE ])
              /\ search_submitted' = TRUE
              /\ spc' = "parse_results" /\ sidx' = 1
         ELSE IF sidx < NumSearchSubmitSelectors
         THEN /\ sidx' = sidx + 1
              /\ UNCHANGED << spc, searched, search_submitted >>
         ELSE /\ searched' = Append(searched, [ by |-> "form", ok |-> FALSE ])
              /\ search_submitted' = search_submitted
              /\ spc' = "sitewide" /\ sidx' = 1
    /\ UNCHANGED << select_el, requested, selection, pauses, markup, showing_times, clock, display_text, display_slot, mvars, avars, tvars, dvars, bvars, query, components, scap, omni, rchain, results, ri,
                    fetched, property, sresult, caught >>

SitewideStep_no_break ==
    /\ spc = "sitewide"
    /\ \E c \in ClickRuns :
         IF safe_click(c)
         THEN /\ searched' = Append(searched, [ by |-> "sitewide", ok |-> TRUE ])
              /\ omni' = [ caller |-> "sitewide", runs |-> omni.runs + 1 ]
              /\ spc' = IF sidx < NumSitewideLinks THEN "sitewide" ELSE "omnibox"
              /\ sidx' = IF sidx < NumSitewideLinks THEN sidx + 1 ELSE 1
         ELSE IF sidx < NumSitewideLinks
         THEN /\ sidx' = sidx + 1
              /\ UNCHANGED << spc, searched, omni >>
         ELSE /\ searched' = Append(searched, [ by |-> "sitewide", ok |-> FALSE ])
              /\ spc' = "parse_results" /\ sidx' = 1
              /\ omni' = omni
    /\ UNCHANGED << xvars, mvars, avars, tvars, dvars, bvars, query, components, scap, rchain, results, ri,
                    fetched, property, sresult, caught >>

\* try_sitewide_search, one link: on a click, one more omnibox run, then break
SitewideStep ==
    /\ spc = "sitewide"
    /\ \E c \in ClickRuns :
         IF safe_click(c)
         THEN /\ searched' = Append(searched, [ by |-> "sitewide", ok |-> TRUE ])
              /\ omni' = [ caller |-> "sitewide", runs |-> omni.runs + 1 ]
              /\ spc' = "omnibox" /\ sidx' = 1
         ELSE IF sidx < NumSitewideLinks
         THEN /\ sidx' = sidx + 1
              /\ UNCHANGED << spc, searched, omni >>
         ELSE /\ searched' = Append(searched, [ by |-> "sitewide", ok |-> FALSE ])
              /\ spc' = "parse_results" /\ sidx' = 1
              /\ omni' = omni
    /\ UNCHANGED << xvars, mvars, avars, tvars, dvars, bvars, query, components, scap, rchain, results, ri,
                    fetched, property, sresult, caught >>

\* parse_search_results, find_elements raises: the empty list is returned
\* and search_property_by_address returns None
ParseResultsError ==
    /\ spc = "parse_results"
    /\ rchain' = [ rchain EXCEPT !.evaluated = sidx ]
    /\ results' = parse_search_results_except
    /\ SFinish("None")
    /\ UNCHANGED << xvars, mvars, avars, tvars, dvars, bvars, sidx, query, components, scap, omni, searched, ri,
                    fetched, property >>

\* parse_search_results, one selector of result_selectors
ParseResultsStep ==
    /\ spc = "parse_results"
    /\ \E elements \in ResultLists :
         /\ rchain' = [ evaluated   |-> sidx,
                        first_match |-> IF elements # << >> THEN sidx ELSE 0,
                        used        |-> IF elements # << >> THEN sidx ELSE 0 ]
         /\ IF elements # << >>
            THEN /\ results' = extract_all(elements)
                 /\ sidx' = 1
                 /\ IF results' = << >>
                    THEN SFinish("None")
                    ELSE spc' = "find_exact_match" /\ UNCHANGED << sresult, caught >>
            ELSE IF sidx < NumResultSelectors
            THEN /\ sidx' = sidx + 1
                 /\ UNCHANGED << spc, results, sresult, caught >>
            ELSE /\ results' = << >>
                 /\ sidx' = sidx
                 /\ SFinish("None")
    /\ ri' = 1
    /\ UNCHANGED << xvars, mvars, avars, tvars, dvars, bvars, query, components, scap, omni, searched, fetched, property >>

\* find_exact_match, one result: skip it, or load its detail page.  The
\* records of the search and parse phases, which are over, are cleared.
MatchStep ==
    /\ spc = "find_exact_match"
    /\ IF ri > Len(results)
       THEN SFinish("None") /\ UNCHANGED << ri, sidx, fetched >>
       ELSE IF results[ri].address = EmptyStr
       THEN ri' = ri + 1 /\ UNCHANGED << spc, sidx, fetched, sresult, caught >>
       ELSE IF ~is_exact_match(parse_property_address(results[ri].address), components)
       THEN ri' = ri + 1 /\ UNCHANGED << spc, sidx, fetched, sresult, caught >>
       ELSE \E o \in { "ok", "error" } :
              IF o = "ok"
              THEN /\ spc' = "detail_captcha" /\ sidx' = 1
                   /\ UNCHANGED << ri, fetched, sresult, caught >>
              ELSE /\ fetched' = [ fetched EXCEPT !.failed = @ \cup { Failed(ri, "get") } ]
                   /\ ri' = ri + 1
                   /\ UNCHANGED << spc, sidx, sresult, caught >>
    /\ omni' = OmniNone
    /\ searched' = << >>
    /\ rchain' = ChainNone
    /\ UNCHANGED << xvars, mvars, avars, tvars, dvars, bvars, query, components, scap, results, property >>

\* get_property_details: check_for_captcha on the detail page, one selector;
\* an exception makes get_property_details return None
DetailCaptchaStep ==
    /\ spc = "detail_captcha"
    /\ \E o \in { "found", "absent", "error" } :
         CASE o = "found" ->
                /\ scap' = scap \cup { ri }
                /\ spc' = "page_source"
                /\ UNCHANGED << sidx, ri, fetched >>
           [] o = "absent" /\ sidx < NumCaptchaSelectors ->
                /\ sidx' = sidx + 1
                /\ UNCHANGED << spc, scap, ri, fetched >>
           [] o = "absent" /\ sidx = NumCaptchaSelectors ->
                /\ spc' = "page_source"
                /\ UNCHANGED << sidx, scap, ri, fetched >>
           [] o = "error" ->
                /\ fetched' = [ fetched EXCEPT !.failed = @ \cup { Failed(ri, "check_for_captcha") } ]
                /\ ri' = ri + 1
                /\ spc' = "find_exact_match"
                /\ UNCHANGED << sidx, scap >>
    /\ UNCHANGED << xvars, mvars, avars, tvars, dvars, bvars, query, components, omni, searched, rchain, results,
                    property, sresult, caught >>

\* get_property_details: get_page_source gives None or the empty string
DetailMissing ==
    /\ spc = "page_source"
    /\ fetched' = [ fetched EXCEPT !.failed = @ \cup { Failed(ri, "page_source") } ]
    /\ ri' = ri + 1
    /\ spc' = "find_exact_match"
    /\ UNCHANGED << xvars, mvars, avars, tvars, dvars, bvars, sidx, query, components, scap, omni, searched, rchain,
                    results, property, sresult, caught >>

\* get_property_details: the parsed page with showing_times and url set
get_property_details(page, property_url) ==
    LET parsed == parse_property_details(page)
    IN  [ k \in DOMAIN parsed \cup { "url" } |->
            IF k = "url" THEN property_url
            ELSE IF k = "showing_times" THEN page.slots
            ELSE parsed[k] ]

\* get_property_details succeeds; find_exact_match merges and returns
DetailMerge ==
    /\ spc = "page_source"
    /\ \E page \in DetailPages :
         LET detail == get_property_details(page, results[ri].link)
         IN  /\ fetched' = [ fetched EXCEPT !.page = page, !.detail = detail,
                                            !.result = results[ri] ]
             /\ property' = update(detail, results[ri])
    /\ SFinish("found")
    /\ UNCHANGED << xvars, mvars, avars, tvars, dvars, bvars, sidx, query, components, scap, omni, searched, rchain,
                    results, ri >>

SNext ==
    \/ SearchStart
    \/ SearchCaptchaStep
    \/ OmniboxStep
    \/ FillSearchAddress
    \/ FillSearchCity
    \/ FillSearchProvince
    \/ SearchSubmitStep
    \/ SitewideStep
    \/ ParseResultsError
    \/ ParseResultsStep
    \/ MatchStep
    \/ DetailCaptchaStep
    \/ DetailMissing
    \/ DetailMerge

-----------------------------------------------------------------------------
(* PropertyParser.parse_time_slot                                          *)

DigitChars == << "0","1","2","3","4","5","6","7","8","9" >>

\* int() of one decimal digit
digit_value(c) == (CHOOSE k \in 1..10 : DigitChars[k] = c) - 1

\* int() of a string of decimal digits
RECURSIVE to_int(_)
to_int(ds) ==
    IF ds = << >> THEN 0
    ELSE 10 * to_int(SubSeq(ds, 1, Len(ds) - 1)) + digit_value(ds[Len(ds)])

\* str() of a natural number
RECURSIVE to_str(_)
to_str(n) ==
    IF n < 10 THEN << DigitChars[n + 1] >>
    ELSE to_str(n \div 10) \o << DigitChars[(n % 10) + 1] >>

\* f"{n:02d}": at least two digits, padded with a zero
format_02d(n) == IF n < 10 THEN << "0" >> \o to_str(n) ELSE to_str(n)

\* n decimal digits stand at position i of s
digits_at(s, i, n) ==
    i + n - 1 <= Len(s) /\ \A k \in i..(i + n - 1) : IsDigit(s[k])

\* (AM|PM) under re.IGNORECASE at position q of s
period_at(s, q) ==
    q + 1 <= Len(s) /\ upper_char(s[q]) \in { "A", "P" } /\ upper_char(s[q + 1]) = "M"

\* the four time_patterns, matched at position i with an hour of n digits:
\*   1  (\d{1,2}):(\d{2})\s*(AM|PM)      2  (\d{1,2})\s*(AM|PM)
\*   3  (\d{1,2}):(\d{2})                4  (\d{1,2})h(\d{2})
pattern_at(k, s, i, n) ==
    /\ digits_at(s, i, n)
    /\ CASE k = 1 -> /\ HasAt(s, i + n, << ":" >>)
                     /\ digits_at(s, i + n + 1, 2)
                     /\ period_at(s, SkipWhitespace(s, i + n + 3))
         [] k = 2 -> period_at(s, SkipWhitespace(s, i + n))
         [] k = 3 -> HasAt(s, i + n, << ":" >>) /\ digits_at(s, i + n + 1, 2)
         [] OTHER -> /\ i + n <= Len(s)
                     /\ lower_char(s[i + n]) = "h"
                     /\ digits_at(s, i + n + 1, 2)

NoMatch == [ ok |-> FALSE, hour |-> EmptyStr, minute |-> EmptyStr, period |-> EmptyStr ]

\* re.search(time_patterns[k], time_text, re.IGNORECASE): the leftmost match,
\* the hour taking two digits when it can; match.groups()
pattern_search(k, s) ==
    LET hits == { i \in 1..Len(s) : pattern_at(k, s, i, 2) \/ pattern_at(k, s, i, 1) }
    IN  IF hits = {} THEN NoMatch
        ELSE LET i == MinOf(hits)
                 n == IF pattern_at(k, s, i, 2) THEN 2 ELSE 1
                 q == SkipWhitespace(s, IF k = 1 THEN i + n + 3 ELSE i + n)
             IN  [ ok     |-> TRUE,
                   hour   |-> SubSeq(s, i, i + n - 1),
                   minute |-> IF k = 2 THEN EmptyStr ELSE SubSeq(s, i + n + 1, i + n + 2),
                   period |-> IF k \in { 1, 2 } THEN upper(SubSeq(s, q, q + 1)) ELSE EmptyStr ]

to_24h_plain(hour, period) ==
    IF period = << "P", "M" >> THEN hour + 12 ELSE hour

\* the AM/PM branches: PM adds 12 except to 12, 12 AM is 0
to_24h(hour, period) ==
    IF period = << "P", "M" >> /\ hour # 12 THEN hour + 12
    ELSE IF period = << "A", "M" >> /\ hour = 12 THEN 0
    ELSE hour

kw_available == <<"a","v","a","i","l","a","b","l","e">>

NoSlot == [ kind |-> "None", time |-> EmptyStr, display |-> EmptyStr, available |-> FALSE ]

\* the dict returned for a match
time_slot_of(m, time_text) ==
    [ kind      |-> "slot",
      time      |-> format_02d(to_24h(to_int(m.hour), m.period)) \o << ":" >> \o
                    (IF m.minute = EmptyStr THEN << "0", "0" >> ELSE m.minute),
      display   |-> time_text,
      available |-> contains(lower(time_text), kw_book)
                    \/ contains(lower(time_text), kw_available) ]

\* the loop over time_patterns taken in the given order
first_pattern(order, time_text) ==
    LET ks == { j \in 1..Len(order) : pattern_search(order[j], time_text).ok }
    IN  IF ks = {} THEN NoSlot
        ELSE time_slot_of(pattern_search(order[MinOf(ks)], time_text), time_text)

parse_time_slot_plain_first(time_text) == first_pattern(<< 3, 4, 1, 2 >>, time_text)

\* parse_time_slot: the first pattern of time_patterns that matches decides
parse_time_slot(time_text) == first_pattern(<< 1, 2, 3, 4 >>, time_text)

\* the pieces time texts are put together from: a leading text, the hour,
\* the separator, the minute, the gap and the period
TimePrefixes   == { EmptyStr, <<"9"," ","A","M"," ">> }
TimeHours      == { <<"2">>, <<"9">>, <<"0","0">>, <<"1","2">>, <<"1","3">>, <<"2","3">>, <<"2","4">>, <<"9","9">> }
TimeSeparators == { <<":">>, <<"h">>, EmptyStr }
TimeMinutes    == { <<"0","0">>, <<"3","0">>, <<"5","9">>, <<"7","5">>, EmptyStr }
TimeGaps       == { EmptyStr, <<" ">> }
TimePeriods    == { EmptyStr, <<"A","M">>, <<"P","M">>, <<"p","m">> }

-----------------------------------------------------------------------------
(* PropertyParser.generate_7_day_schedule, BrokerBayScraper.get_7_day_schedule *)

\* range(7), start_hour, end_hour
ScheduleDays == 7
start_hour   == 9
end_hour     == 17
slot_minutes == << 0, 30 >>

\* datetime: the proleptic Gregorian calendar
is_leap(y) == y % 4 = 0 /\ (y % 100 # 0 \/ y % 400 = 0)

days_in_month(y, m) ==
    IF m = 2 THEN (IF is_leap(y) THEN 29 ELSE 28)
    ELSE IF m \in { 4, 6, 9, 11 } THEN 30
    ELSE 31

RECURSIVE days_before_month(_, _)
days_before_month(y, m) ==
    IF m = 1 THEN 0 ELSE days_before_month(y, m - 1) + days_in_month(y, m - 1)

days_before_year(y) ==
    (y - 1) * 365 + ((y - 1) \div 4) - ((y - 1) \div 100) + ((y - 1) \div 400)

\* date.toordinal()
toordinal(d) == days_before_year(d.year) + days_before_month(d.year, d.month) + d.day

\* date.fromordinal(n), for an ordinal that lies in year y or the year after
fromordinal(n, y) ==
    CHOOSE d \in [ year : { y, y + 1 }, month : 1..12, day : 1..31 ] :
        d.day <= days_in_month(d.year, d.month) /\ toordinal(d) = n

\* start_date + timedelta(days=i)
plus_days(d, i) == fromordinal(toordinal(d) + i, d.year)

\* date.weekday(): Monday is 0
weekday(d) == (toordinal(d) + 6) % 7

DayNames == << <<"M","o","n","d","a","y">>, <<"T","u","e","s","d","a","y">>, <<"W","e","d","n","e","s","d","a","y">>, <<"T","h","u","r","s","d","a","y">>, <<"F","r","i","d","a","y">>, <<"S","a","t","u","r","d","a","y">>, <<"S","u","n","d","a","y">> >>

\* strftime('%Y-%m-%d') and strftime('%A')
strftime_ymd(d) ==
    to_str(d.year) \o << "-" >> \o format_02d(d.month) \o << "-" >> \o format_02d(d.day)
strftime_A(d) == DayNames[weekday(d) + 1]

\* format_time_display
format_time_display(hour, minute) ==
    IF hour = 0 THEN << "1", "2", ":" >> \o format_02d(minute) \o << " ", "A", "M" >>
    ELSE IF hour < 12 THEN to_str(hour) \o << ":" >> \o format_02d(minute) \o << " ", "A", "M" >>
    ELSE IF hour = 12 THEN << "1", "2", ":" >> \o format_02d(minute) \o << " ", "P", "M" >>
    ELSE to_str(hour - 12) \o << ":" >> \o format_02d(minute) \o << " ", "P", "M" >>

\* the dict appended for one hour and minute
grid_slot(hour, minute) ==
    [ time      |-> format_02d(hour) \o << ":" >> \o format_02d(minute),
      display   |-> format_time_display(hour, minute),
      available |-> TRUE ]

hour_slots_no_break(hour) ==
    [ j \in 1..Len(slot_minutes) |-> grid_slot(hour, slot_minutes[j]) ]

\* the inner loop over [0, 30]: it breaks at the first minute past the full
\* hour of end_hour
hour_slots(hour) ==
    LET stop == { j \in 1..Len(slot_minutes) : hour = end_hour /\ slot_minutes[j] > 0 }
        last == IF stop = {} THEN Len(slot_minutes) ELSE MinOf(stop) - 1
    IN  [ j \in 1..last |-> grid_slot(hour, slot_minutes[j]) ]

\* generate_time_slots: the outer loop over range(start_hour, end_hour + 1)
RECURSIVE slots_from(_)
slots_from(hour) ==
    IF hour > end_hour THEN << >> ELSE hour_slots(hour) \o slots_from(hour + 1)

generate_time_slots == slots_from(start_hour)

\* the dict of one day
day_schedule(date, time_slots) ==
    [ date |-> strftime_ymd(date), day_name |-> strftime_A(date), time_slots |-> time_slots ]

\* generate_7_day_schedule(start_date)
generate_7_day_schedule(start) ==
    [ i \in 1..ScheduleDays |-> day_schedule(plus_days(start, i - 1), generate_time_slots) ]

get_7_day_schedule_first_day(property_record, now) ==
    IF property_record.showing_times = << >> THEN generate_7_day_schedule(now)
    ELSE [ i \in 1..ScheduleDays |->
             day_schedule(plus_days(now, i - 1),
                          IF i = 1 THEN property_record.showing_times
                          ELSE generate_time_slots) ]

\* get_7_day_schedule(property_data), called when datetime.now() is `now`:
\* property_data.get('showing_times') is falsy when the key is missing or
\* the list is empty
get_7_day_schedule(property_record, now) ==
    IF property_record.showing_times = << >> THEN generate_7_day_schedule(now)
    ELSE [ i \in 1..ScheduleDays |->
             day_schedule(plus_days(now, i - 1), property_record.showing_times) ]

NoDate == [ year |-> 0, month |-> 0, day |-> 0 ]

\* start dates: before a leap day, before the end of February of a common
\* year and of 2100, before the end of a year, of a 30-day and of a 31-day
\* month, and inside a month
StartDates ==
    { [ year |-> 2024, month |-> 2, day |-> 25 ],
      [ year |-> 2023, month |-> 2, day |-> 25 ],
      [ year |-> 2025, month |-> 12, day |-> 28 ],
      [ year |-> 2026, month |-> 11, day |-> 3 ],
      [ year |-> 2100, month |-> 2, day |-> 25 ],
      [ year |-> 2000, month |-> 2, day |-> 26 ],
      [ year |-> 2024, month |-> 4, day |-> 27 ],
      [ year |-> 2024, month |-> 7, day |-> 29 ] }

s_230pm == <<"2",":","3","0"," ","P","M">>
s_12am  == <<"1","2"," ","A","M">>

\* what a property record holds under 'showing_times': the slots
\* parse_showing_times read from its page
ObservedSlots ==
    { << >>,
      << parse_time_slot(s_230pm) >>,
      << parse_time_slot(s_230pm), parse_time_slot(s_12am) >>,
      << parse_time_slot(s_12am), parse_time_slot(s_230pm) >> }

\* the property records: without the key, with an empty list, with slots
PropertyRecords ==
    { [ has_showing_times |-> FALSE, showing_times |-> << >> ] }
    \cup { [ has_showing_times |-> TRUE, showing_times |-> t ] : t \in ObservedSlots }

-----------------------------------------------------------------------------
(* BookingSystem.select_time_option *)

\* the options of a select control: value attribute and visible text
TimeOptions ==
    { [ value |-> <<"1","4",":","3","0">>, text |-> <<"2",":","3","0"," ","P","M">> ],
      [ value |-> <<"a">>, text |-> <<"1","4",":","3","0">> ],
      [ value |-> <<"b">>, text |-> <<"1","4",":","3","0"," ","t","o","d","a","y">> ],
      [ value |-> <<"c">>, text |-> <<"1","4">> ],
      [ value |-> <<"d">>, text |-> <<"9",":","0","0">> ] }

MaxOptions == 3

RECURSIVE OptionLists(_)
OptionLists(n) ==
    IF n = 0 THEN { << >> }
    ELSE OptionLists(n - 1)
         \cup { Append(l, o) : l \in { m \in OptionLists(n - 1) : Len(m) = n - 1 },
                               o \in TimeOptions }

\* what wait_for_element gives for the selector: None, an element that is
\* not a select (Select() raises), a select with its options
SelectElements ==
    { [ kind |-> k, options |-> << >> ] : k \in { "none", "other" } }
    \cup { [ kind |-> "select", options |-> l ] : l \in OptionLists(MaxOptions) }

NoSelection == [ ok |-> FALSE, index |-> 0 ]

\* Select.select_by_value / select_by_visible_text: the first option with
\* that value / text, 0 when the call raises NoSuchElementException
by_value(options, v) ==
    LET hits == { i \in 1..Len(options) : options[i].value = v }
    IN  IF hits = {} THEN 0 ELSE MinOf(hits)

by_visible_text(options, t) ==
    LET hits == { i \in 1..Len(options) : options[i].text = t }
    IN  IF hits = {} THEN 0 ELSE MinOf(hits)

\* the loop over select.options
partial_match(options, time_value) ==
    LET hits == { i \in 1..Len(options) :
                    contains(options[i].text, time_value)
                    \/ contains(time_value, options[i].text) }
    IN  IF hits = {} THEN 0 ELSE by_visible_text(options, options[MinOf(hits)].text)

select_time_option_text_first(select_element, time_value) ==
    IF select_element.kind # "select" THEN NoSelection
    ELSE LET stages == << by_visible_text(select_element.options, time_value),
                          by_value(select_element.options, time_value),
                          partial_match(select_element.options, time_value) >>
             done   == { k \in 1..3 : stages[k] # 0 }
         IN  IF done = {} THEN NoSelection
             ELSE [ ok |-> TRUE, index |-> stages[MinOf(done)] ]

\* select_time_option
select_time_option(select_element, time_value) ==
    IF select_element.kind # "select" THEN NoSelection
    ELSE LET stages == << by_value(select_element.options, time_value),
                          by_visible_text(select_element.options, time_value),
                          partial_match(select_element.options, time_value) >>
             done   == { k \in 1..3 : stages[k] # 0 }
         IN  IF done = {} THEN NoSelection
             ELSE [ ok |-> TRUE, index |-> stages[MinOf(done)] ]

-----------------------------------------------------------------------------
(* PropertyParser.parse_showing_times *)

\* time_selectors: a class selector matches a class of that name, an
\* attribute selector [class*="..."] a class attribute holding the text
time_selectors ==
    << [ kind |-> "class", arg |-> <<"s","h","o","w","i","n","g","-","t","i","m","e">> ],
       [ kind |-> "class", arg |-> <<"a","v","a","i","l","a","b","l","e","-","t","i","m","e">> ],
       [ kind |-> "class", arg |-> <<"b","o","o","k","i","n","g","-","s","l","o","t">> ],
       [ kind |-> "class*", arg |-> <<"s","h","o","w","i","n","g">> ],
       [ kind |-> "class*", arg |-> <<"b","o","o","k","i","n","g">> ] >>

\* the elements of a page, each with one class and its text
SlotElements ==
    { [ class |-> c, text |-> t ] :
        c \in { <<"s","h","o","w","i","n","g","-","t","i","m","e">>, <<"a","v","a","i","l","a","b","l","e","-","t","i","m","e">>, <<"b","o","o","k","i","n","g","-","s","l","o","t">>, <<"n","o","t","e">> },
        t \in { s_230pm, s_12am, <<"C","a","l","l"," ","u","s">> } }

MaxElements == 2

RECURSIVE Markups(_)
Markups(n) ==
    IF n = 0 THEN { << >> }
    ELSE Markups(n - 1)
         \cup { Append(l, e) : l \in { m \in Markups(n - 1) : Len(m) = n - 1 },
                               e \in SlotElements }

\* soup.select(selector): the matching elements in document order
selector_matches(selector, element) ==
    IF selector.kind = "class" THEN element.class = selector.arg
    ELSE contains(element.class, selector.arg)

soup_select(elements, selector) ==
    SelectSeq(elements, LAMBDA e : selector_matches(selector, e))

RECURSIVE slots_of(_)
\* the inner loop: the slots of the elements a selector matched
slots_of(elements) ==
    IF elements = << >> THEN << >>
    ELSE LET time_data == parse_time_slot(strip(Head(elements).text))
         IN  (IF time_data.kind = "slot" THEN << time_data >> ELSE << >>)
             \o slots_of(Tail(elements))

RECURSIVE showing_times_from(_, _)
showing_times_from(elements, k) ==
    IF k > Len(time_selectors) THEN << >>
    ELSE slots_of(soup_select(elements, time_selectors[k]))
         \o showing_times_from(elements, k + 1)

\* parse_showing_times
parse_showing_times(elements) == showing_times_from(elements, 1)

-----------------------------------------------------------------------------
(* The primitives called on their own: safe_click, safe_send_keys, the     *)
(* CaptchaSolver methods, parse_property_address and parse_time_slot       *)

\* the most tokens an address text of the model is put together from
MaxTokens == 4

\* pieces of address texts
AddressTokens == { s_t_street, s_t_oneida, s_t_toronto, s_t_on, s_t_ontario,
                   s_t_postal, s_t_unit, s_t_bc }
\* the two addresses the specification gives as examples
ExampleAddresses == { s_ex_toronto, s_ex_calgary }

SolverMethods == { "solve_recaptcha_v2", "solve_hcaptcha", "solve_image_captcha",
                   "solve_captcha_from_base64" }

\* the calls: the primitive and, for the solver, whether Config.CAPTCHA_API_KEY is set
Calls ==
    { [ op |-> o, configured |-> TRUE ] :
        o \in { "safe_click", "safe_send_keys", "parse_property_address",
                "parse_time_slot", "generate_7_day_schedule", "get_7_day_schedule",
                "select_time_option", "parse_showing_times", "format_time_display" } }
    \cup { [ op |-> o, configured |-> c ] : o \in SolverMethods, c \in BOOLEAN }

AnswerNone == [ kind |-> "none", value |-> EmptyStr ]

DInit ==
    /\ dpc = "running"
    /\ prim \in Calls
    /\ tries = 0
    /\ clicks = 0
    /\ outcomes = << >>
    /\ dret = "none"
    /\ answer = AnswerNone
    /\ raw_text = EmptyStr
    /\ ntok = 0
    /\ address_out = << >>

\* no primitive called on its own
DIdle ==
    /\ dpc = "idle"
    /\ prim = [ op |-> "none", configured |-> FALSE ]
    /\ tries = 0
    /\ clicks = 0
    /\ outcomes = << >>
    /\ dret = "none"
    /\ answer = AnswerNone
    /\ raw_text = EmptyStr
    /\ ntok = 0
    /\ address_out = << >>

\* safe_click, one pass of `for attempt in range(3)`: wait_for_clickable gives
\* the element and the script click runs ("clicked"), gives None after the
\* timeout ("timeout"), or an exception is caught ("raised")
ClickAttempt ==
    /\ dpc = "running"
    /\ prim.op = "safe_click"
    /\ \E o \in ClickOutcomes :
         LET r == safe_click_attempt(o, tries + 1)
         IN  /\ tries' = tries + 1
             /\ outcomes' = Append(outcomes, o)
             /\ clicks' = IF o = "clicked" THEN clicks + 1 ELSE clicks
             /\ pauses' = Append(pauses, delay_after(o))
             /\ IF r = "retry"
                THEN UNCHANGED << dpc, dret >>
                ELSE dpc' = "done" /\ dret' = r
    /\ UNCHANGED << select_el, requested, selection, search_submitted, markup, showing_times, clock, display_text, display_slot, mvars, avars, tvars, bvars, svars, caught, prim, answer, raw_text, ntok, address_out >>

\* safe_send_keys: one try block, no loop around it
TypeAttempt ==
    /\ dpc = "running"
    /\ prim.op = "safe_send_keys"
    /\ \E o \in SendKeysOutcomes :
         /\ tries' = tries + 1
         /\ outcomes' = Append(outcomes, o)
         /\ dret' = IF safe_send_keys(o) THEN "True" ELSE "False"
    /\ dpc' = "done"
    /\ UNCHANGED << xvars, mvars, avars, tvars, bvars, svars, caught, prim, clicks, answer, raw_text, ntok, address_out >>

\* one call of a CaptchaSolver method; the provider answers with a token or fails
SolverCall ==
    /\ dpc = "running"
    /\ prim.op \in SolverMethods
    /\ \E a \in ProviderOutcomes :
         answer' = CASE prim.op = "solve_recaptcha_v2" -> solve_recaptcha_v2(prim.configured, a)
                     [] prim.op = "solve_hcaptcha" -> solve_hcaptcha(prim.configured, a)
                     [] prim.op = "solve_image_captcha" -> solve_image_captcha(prim.configured, a)
                     [] OTHER -> solve_captcha_from_base64(prim.configured, a)
    /\ dpc' = "done"
    /\ UNCHANGED << xvars, mvars, avars, tvars, bvars, svars, caught, prim, tries, clicks, outcomes, dret, raw_text,
                    ntok, address_out >>

\* the address text grows by one token
AppendToken ==
    /\ dpc = "running"
    /\ prim.op = "parse_property_address"
    /\ ntok < MaxTokens
    /\ \E t \in AddressTokens : raw_text' = raw_text \o t
    /\ ntok' = ntok + 1
    /\ UNCHANGED << xvars, mvars, avars, tvars, bvars, svars, caught, dpc, prim, tries, clicks, outcomes, dret,
                    answer, address_out >>

\* the address text is one of the examples
LoadExample ==
    /\ dpc = "running"
    /\ prim.op = "parse_property_address"
    /\ ntok = 0
    /\ raw_text' \in ExampleAddresses
    /\ ntok' = MaxTokens
    /\ UNCHANGED << xvars, mvars, avars, tvars, bvars, svars, caught, dpc, prim, tries, clicks, outcomes, dret,
                    answer, address_out >>

\* parse_property_address(raw_text)
ParseAddress ==
    /\ dpc = "running"
    /\ prim.op = "parse_property_address"
    /\ address_out' = parse_property_address(raw_text)
    /\ dpc' = "done"
    /\ UNCHANGED << xvars, mvars, avars, tvars, bvars, svars, caught, prim, tries, clicks, outcomes, dret, answer,
                    raw_text, ntok >>

\* the argument of parse_time_slot
ChooseTimeText ==
    /\ dpc = "running"
    /\ prim.op = "parse_time_slot"
    /\ ntok = 0
    /\ \E p \in TimePrefixes, h \in TimeHours, c \in TimeSeparators, m \in TimeMinutes,
          g \in TimeGaps, a \in TimePeriods :
         raw_text' = p \o h \o c \o m \o g \o a
    /\ ntok' = 1
    /\ UNCHANGED << xvars, mvars, avars, tvars, bvars, svars, caught, dpc, prim, tries, clicks, outcomes, dret,
                    answer, address_out >>

\* parse_time_slot(raw_text)
ParseTimeSlot ==
    /\ dpc = "running"
    /\ prim.op = "parse_time_slot"
    /\ ntok = 1
    /\ time_slot' = parse_time_slot(raw_text)
    /\ dpc' = IF time_slot'.kind = "slot" THEN "parsed" ELSE "done"
    /\ UNCHANGED << xvars, mvars, avars, bvars, svars, caught, prim, tries, clicks, outcomes, dret, answer,
                    raw_text, ntok, address_out, time_again, start_date, property_rec, schedule >>

\* parse_time_slot on the time it returned
ReparseTime ==
    /\ dpc = "parsed"
    /\ time_again' = parse_time_slot(time_slot.time)
    /\ dpc' = "done"
    /\ UNCHANGED << xvars, mvars, avars, bvars, svars, caught, prim, tries, clicks, outcomes, dret, answer,
                    raw_text, ntok, address_out, time_slot, start_date, property_rec, schedule >>

\* generate_7_day_schedule(start_date)
GenerateSchedule ==
    /\ dpc = "running"
    /\ prim.op = "generate_7_day_schedule"
    /\ \E d \in StartDates :
         /\ start_date' = d
         /\ schedule' = generate_7_day_schedule(d)
    /\ dpc' = "done"
    /\ UNCHANGED << xvars, mvars, avars, bvars, svars, caught, prim, tries, clicks, outcomes, dret, answer,
                    raw_text, ntok, address_out, time_slot, time_again, property_rec >>

\* get_7_day_schedule(property_data) on the day datetime.now() gives
GetSchedule ==
    /\ dpc = "running"
    /\ prim.op = "get_7_day_schedule"
    /\ \E d \in StartDates, r \in PropertyRecords :
         /\ start_date' = d
         /\ property_rec' = r
         /\ schedule' = get_7_day_schedule(r, d)
    /\ dpc' = "done"
    /\ UNCHANGED << xvars, mvars, avars, bvars, svars, caught, prim, tries, clicks, outcomes, dret, answer,
                    raw_text, ntok, address_out, time_slot, time_again >>

\* select_time_option(selector, time_value) on a page
SelectTimeOption ==
    /\ dpc = "running"
    /\ prim.op = "select_time_option"
    /\ \E e \in SelectElements :
         /\ select_el' = e
         /\ requested' = <<"1","4",":","3","0">>
         /\ selection' = select_time_option(e, requested')
    /\ dpc' = "done"
    /\ UNCHANGED << pauses, search_submitted, markup, showing_times, clock, display_text, display_slot, mvars, avars, tvars, bvars, svars, caught, prim, tries, clicks, outcomes, dret,
                    answer, raw_text, ntok, address_out >>

\* parse_showing_times(html_content)
ParseShowingTimes ==
    /\ dpc = "running"
    /\ prim.op = "parse_showing_times"
    /\ \E m \in Markups(MaxElements) :
         /\ markup' = m
         /\ showing_times' = parse_showing_times(m)
    /\ dpc' = "done"
    /\ UNCHANGED << select_el, requested, selection, pauses, search_submitted, clock, display_text, display_slot, mvars, avars, tvars,
                    bvars, svars, caught, prim, tries, clicks, outcomes, dret,
                    answer, raw_text, ntok, address_out >>

\* format_time_display(hour, minute)
FormatTimeDisplay ==
    /\ dpc = "running"
    /\ prim.op = "format_time_display"
    /\ \E h \in 0..23, m \in 0..59 :
         /\ clock' = [ hour |-> h, minute |-> m ]
         /\ display_text' = format_time_display(h, m)
    /\ dpc' = "formatted"
    /\ UNCHANGED << select_el, requested, selection, pauses, search_submitted, markup,
                    showing_times, display_slot, mvars, avars, tvars, bvars, svars, caught, prim,
                    tries, clicks, outcomes, dret, answer, raw_text, ntok, address_out >>

\* parse_time_slot on the text format_time_display returned
ParseDisplay ==
    /\ dpc = "formatted"
    /\ display_slot' = parse_time_slot(display_text)
    /\ dpc' = "done"
    /\ UNCHANGED << select_el, requested, selection, pauses, search_submitted, markup,
                    showing_times, clock, display_text, mvars, avars, tvars, bvars, svars, caught,
                    prim, tries, clicks, outcomes, dret, answer, raw_text, ntok, address_out >>

DNext ==
    \/ ClickAttempt
    \/ TypeAttempt
    \/ SolverCall
    \/ AppendToken
    \/ LoadExample
    \/ ParseAddress
    \/ ChooseTimeText
    \/ ParseTimeSlot
    \/ ReparseTime
    \/ GenerateSchedule
    \/ GetSchedule
    \/ SelectTimeOption
    \/ ParseShowingTimes
    \/ FormatTimeDisplay
    \/ ParseDisplay

-----------------------------------------------------------------------------
(* AntiDetection: the requests session, its identity and its egress address *)

MaxResets    == 3
MaxRotations == 5

\* Config.DEFAULT_HEADERS
DEFAULT_HEADERS ==
    ("Accept" :> "text/html,application/xhtml+xml,application/xml;q=0.9,image/webp,*/*;q=0.8")
    @@ ("Accept-Language" :> "en-US,en;q=0.5")
    @@ ("Accept-Encoding" :> "gzip, deflate, br")
    @@ ("DNT" :> "1")
    @@ ("Connection" :> "keep-alive")
    @@ ("Upgrade-Insecure-Requests" :> "1")

\* Config.USER_AGENTS, each entry named by its browser and platform
USER_AGENTS ==
    << "Chrome/120 Windows", "Chrome/120 Macintosh", "Chrome/120 Linux",
       "Firefox/121 Windows", "Firefox/121 Macintosh" >>

\* what rotate_user_agent may choose: self.ua.random gives a string of the
\* fake_useragent data, or it raises and random.choice(Config.USER_AGENTS)
\* is taken
UaRandom   == { "fake_useragent" }
UserAgents == UaRandom \cup { USER_AGENTS[i] : i \in 1..Len(USER_AGENTS) }

\* Config.PROXY_LIST: PROXY_LIST unset, one entry, three entries
ProxyPools ==
    { << >>,
      << "10.0.0.1:8080" >>,
      << "10.0.0.1:8080", "10.0.0.2:8080", "10.0.0.3:8080" >> }

EmptyDict == [ k \in {} |-> EmptyStr ]

\* requests.Session(): the headers the library starts every session with,
\* no cookie and no proxy
Session(id) ==
    [ id      |-> id,
      headers |-> ("User-Agent" :> "python-requests") @@ ("Accept-Encoding" :> "gzip, deflate")
                  @@ ("Accept" :> "*/*") @@ ("Connection" :> "keep-alive"),
      cookies |-> {},
      proxies |-> EmptyDict,
      closed  |-> FALSE ]

NoSession ==
    [ id |-> 0, headers |-> EmptyDict, cookies |-> {}, proxies |-> EmptyDict, closed |-> FALSE ]

\* what the holder of get_session() leaves on the session: a cookie the
\* site set, a header set after creation
SessionCookies == { "sessionid" }
CallerHeaders  == { ("Referer" :> "https://www.brokerbay.ca/search"),
                    ("Accept" :> "application/json") }

\* rotate_user_agent with the string chosen
rotate_user_agent(self, user_agent) ==
    [ self EXCEPT !.session.headers = update(@, ("User-Agent" :> user_agent)) ]

proxy_dict(proxy) ==
    ("http" :> << "http://", proxy >>) @@ ("https" :> << "http://", proxy >>)

rotate_proxy_stuck(self, pool) ==
    IF pool = << >> THEN self
    ELSE [ self EXCEPT !.session.proxies =
                           update(@, proxy_dict(pool[(self.proxy_index % Len(pool)) + 1])) ]

\* rotate_proxy
rotate_proxy(self, pool) ==
    IF pool = << >> THEN self
    ELSE [ self EXCEPT !.proxy_index = @ + 1,
                       !.session.proxies =
                           update(@, proxy_dict(pool[(self.proxy_index % Len(pool)) + 1])) ]

\* setup_session
setup_session(self, pool, user_agent) ==
    LET with_defaults == [ self EXCEPT !.session.headers = update(@, DEFAULT_HEADERS) ]
        with_identity == rotate_user_agent(with_defaults, user_agent)
    IN  IF pool # << >> THEN rotate_proxy(with_identity, pool) ELSE with_identity

reset_session_same_object(self, pool, user_agent, id) ==
    setup_session(self, pool, user_agent)

\* reset_session, after self.session.close(): the new requests.Session() is
\* the id-th session created
reset_session(self, pool, user_agent, id) ==
    setup_session([ self EXCEPT !.session = Session(id) ], pool, user_agent)

\* Session.close()
close(s) == [ s EXCEPT !.closed = TRUE ]

\* AntiDetection(): __init__
AInit ==
    /\ apc = "ready"
    /\ proxy_list \in ProxyPools
    /\ \E user_agent \in UserAgents :
         anti = setup_session([ session |-> Session(1), proxy_index |-> 0 ],
                              proxy_list, user_agent)
    /\ prior = NoSession
    /\ created = 1
    /\ rotate_calls = 0
    /\ rotated = IF proxy_list # << >> THEN << anti.session.proxies >> ELSE << >>

\* no AntiDetection object of its own
AIdle ==
    /\ apc = "idle"
    /\ proxy_list = << >>
    /\ anti = [ session |-> NoSession, proxy_index |-> 0 ]
    /\ prior = NoSession
    /\ created = 0
    /\ rotate_calls = 0
    /\ rotated = << >>

\* get_session() and what its holder does with the session: a response sets
\* a cookie, the caller sets a header
UseSession ==
    /\ apc = "ready"
    /\ \/ \E c \in SessionCookies :
            anti' = [ anti EXCEPT !.session.cookies = @ \cup { c } ]
       \/ \E h \in CallerHeaders :
            anti' = [ anti EXCEPT !.session.headers = update(@, h) ]
    /\ anti' # anti
    /\ UNCHANGED << xvars, mvars, tvars, bvars, svars, caught, dvars, apc, proxy_list, prior, created,
                    rotate_calls, rotated >>

\* rotate_user_agent()
RotateUserAgent ==
    /\ apc = "ready"
    /\ \E user_agent \in UserAgents : anti' = rotate_user_agent(anti, user_agent)
    /\ anti' # anti
    /\ UNCHANGED << xvars, mvars, tvars, bvars, svars, caught, dvars, apc, proxy_list, prior, created,
                    rotate_calls, rotated >>

\* rotate_proxy()
RotateProxy ==
    /\ apc = "ready"
    /\ Len(rotated) < MaxRotations
    /\ rotate_calls < MaxRotations
    /\ anti' = rotate_proxy(anti, proxy_list)
    /\ rotate_calls' = rotate_calls + 1
    /\ rotated' = IF proxy_list # << >> THEN Append(rotated, anti'.session.proxies)
                  ELSE rotated
    /\ UNCHANGED << xvars, mvars, tvars, bvars, svars, caught, dvars, apc, proxy_list, prior, created >>

\* reset_session()
ResetSession ==
    /\ apc = "ready"
    /\ created <= MaxResets
    /\ Len(rotated) < MaxRotations
    /\ prior' = close(anti.session)
    /\ created' = created + 1
    /\ \E user_agent \in UserAgents :
         anti' = reset_session(anti, proxy_list, user_agent, created + 1)
    /\ rotated' = IF proxy_list # << >> THEN Append(rotated, anti'.session.proxies)
                  ELSE rotated
    /\ UNCHANGED << xvars, mvars, tvars, bvars, svars, caught, dvars, apc, proxy_list, rotate_calls >>

ANext ==
    \/ UseSession
    \/ RotateUserAgent
    \/ RotateProxy
    \/ ResetSession

-----------------------------------------------------------------------------
(* main.book_viewing and DataManager.save_booking                          *)

\* main.book_viewing: the booking_data dictionary it builds
booking_data_of(date_time, contact) ==
    [ date          |-> date_time.date,
      time          |-> date_time.time,
      contact_name  |-> contact.name,
      contact_email |-> contact.email,
      contact_phone |-> contact.phone,
      message       |-> contact.message,
      status        |-> date_time.status ]

\* DataManager.save_booking: the row of its INSERT INTO bookings
save_booking(property_id, booking_data) ==
    [ property_id   |-> property_id,
      booking_date  |-> booking_data.date,
      booking_time  |-> booking_data.time,
      contact_name  |-> booking_data.contact_name,
      contact_email |-> booking_data.contact_email,
      contact_phone |-> booking_data.contact_phone,
      message       |-> booking_data.message,
      status        |-> booking_data.status ]

\* the test of main.book_viewing made to look at nothing
saves_regardless(success) == TRUE

\* main.book_viewing: if success: ... data_manager.save_booking(...)
saves_booking(success) == success = "True"

\* main.book_viewing: property_data = data_manager.get_property(property_id);
\* nothing found returns False, otherwise the booking data is built and
\* BookingSystem.book_viewing is entered
GetProperty ==
    /\ mpc = "get_property"
    /\ \/ /\ mpc' = "returned"
          /\ main_result' = "False"
          /\ UNCHANGED << bvars, saved, bookings >>
       \/ /\ \E p \in PropertyInputs, c \in ContactInputs, t \in TimeInputs, k \in BOOLEAN :
                /\ property_data' = p
                /\ contact_info' = c
                /\ selected_time' = t
                /\ api_key' = k
          /\ pc' = "get_booking_url"
          /\ mpc' = "booking"
          /\ UNCHANGED << booking_url, current_url, idx, fld, attempt, link, cap, form, ver,
                          ret, typed_any, submitted, trace, result, saved, bookings,
                          main_result >>
    /\ UNCHANGED << xvars, avars, tvars, dvars, svars, caught >>

\* main.book_viewing after BookingSystem.book_viewing returned: a successful
\* booking is handed to save_booking, whose INSERT stores the row or fails
MainReturn ==
    /\ mpc = "booking"
    /\ pc = "done"
    /\ mpc' = "returned"
    /\ IF saves_booking(result)
       THEN LET row == save_booking(property_data.property_id,
                                    booking_data_of(selected_time, contact_info))
            IN  /\ saved' = Append(saved, row)
                /\ \/ bookings' = Append(bookings, row)
                   \/ bookings' = bookings
                /\ main_result' = "True"
       ELSE /\ main_result' = "False"
            /\ UNCHANGED << saved, bookings >>
    /\ UNCHANGED << xvars, avars, tvars, dvars, bvars, svars, caught >>

MNext ==
    \/ GetProperty
    \/ MainReturn

Init ==
    /\ caught = FALSE
    /\ time_slot = NoSlot
    /\ time_again = NoSlot
    /\ start_date = NoDate
    /\ property_rec = [ has_showing_times |-> FALSE, showing_times |-> << >> ]
    /\ schedule = << >>
    /\ select_el = [ kind |-> "none", options |-> << >> ]
    /\ requested = EmptyStr
    /\ selection = NoSelection
    /\ pauses = << >>
    /\ search_submitted = FALSE
    /\ markup = << >>
    /\ showing_times = << >>
    /\ clock = [ hour |-> 0, minute |-> 0 ]
    /\ display_text = EmptyStr
    /\ display_slot = NoSlot
    /\ saved = << >>
    /\ bookings = << >>
    /\ main_result = "none"
    /\ \/ BInit /\ SIdle /\ DIdle /\ AIdle /\ mpc = "booking"
       \/ BIdle /\ SInit /\ DIdle /\ AIdle /\ mpc = "idle"
       \/ BIdle /\ SIdle /\ DInit /\ AIdle /\ mpc = "idle"
       \/ BIdle /\ SIdle /\ DIdle /\ AInit /\ mpc = "idle"
       \/ BIdle /\ SIdle /\ DIdle /\ AIdle /\ mpc = "get_property"

Next ==
    \/ BNext
    \/ SNext
    \/ DNext
    \/ MNext
    \/ ANext
Spec == Init /\ [][Next]_vars

-----------------------------------------------------------------------------
(* Claims about the booking state machine                                  *)

Range(seq) == { seq[i] : i \in 1..Len(seq) }
IsPrefix(a, b) == Len(a) <= Len(b) /\ SubSeq(b, 1, Len(a)) = a

\* the strings of the model that carry a success keyword, spelled out
TextsWithKeyword == { s_Booked }
UrlsWithKeyword  == { s_Success, s_confirm, s_book \o kw_booked }

VerificationOver == pc \in { "verify_return", "done" } /\ "verify" \in Range(trace)

NoIndicatorSeen ==
    /\ ver.shown \cap TextsWithKeyword = {}
    /\ ~ver.error_shown
    /\ current_url \notin UrlsWithKeyword

\* C1: after a successful submit click, when the page shows no visible
\* success element carrying a success keyword, no visible error element and a
\* URL without success keyword, verify_booking returns False and so does
\* book_viewing.
C1_NoIndicatorIsFailure ==
    (VerificationOver /\ submitted # << >> /\ NoIndicatorSeen)
        => (ret = "False" /\ (pc = "done" => result = "False"))

C1_Witness ==
    /\ pc = "done" /\ submitted # << >> /\ NoIndicatorSeen
    /\ ver.url_read /\ ver.shown = { s_Confirm } /\ result = "False"

\* C2 (as claimed): when the submit click succeeded, no success or error
\* element exists afterwards and the URL after submit is the booking URL that
\* was navigated to, book_viewing returns False and the status stays pending.
C2_UnchangedUrlIsFailure ==
    (pc = "done" /\ submitted # << >> /\ "verify" \in Range(trace)
        /\ ~ver.found /\ current_url = booking_url)
        => (result = "False" /\ selected_time.status = "pending")

\* C3: verify_booking decides in the order success element with keyword,
\* visible error element, URL keyword, failure, whenever no driver call of
\* the verification raised.
C3_VerifyOrder ==
    (VerificationOver /\ ~ver.raised)
        => (ret = "True" <=>
              \/ ver.shown \cap TextsWithKeyword # {}
              \/ /\ ~ver.error_shown
                 /\ ver.url_read
                 /\ current_url \in UrlsWithKeyword)

C3_Witness ==
    /\ pc = "verify_return" /\ ~ver.raised
    /\ ver.error_shown /\ current_url \in UrlsWithKeyword
    /\ ver.shown = { s_Confirm } /\ ret = "False"

BookingOrder == << "resolve", "navigate", "captcha", "fill", "submit", "verify" >>
WithoutSolve(seq) == SelectSeq(seq, LAMBDA x : x # "solve_captcha")

\* C4: the steps of book_viewing occur in the order resolve, navigate,
\* CAPTCHA check, form fill, submit click, verification; no submit click is
\* attempted unless the form fill returned success, no verification unless a
\* submit click succeeded; the run is over once a result is returned, and a
\* success result comes from verification only.
C4_StepOrder ==
    /\ IsPrefix(WithoutSolve(trace), BookingOrder)
    /\ (pc = "submit" => ("fill" \in Range(trace) /\ ret = "True"))
    /\ ("verify" \in Range(trace) => submitted # << >>)
    /\ (pc \in { "verify_success", "verify_error", "verify_url" } => submitted # << >>)
    /\ (result # "none" <=> pc = "done")
    /\ (pc = "done" => ~ENABLED BNext)
    /\ (result = "True" => ("verify" \in Range(trace) /\ ret = "True"))

C4_Witness ==
    /\ pc = "done" /\ result = "True"
    /\ trace = << "resolve", "navigate", "captcha", "solve_captcha", "fill",
                  "submit", "verify" >>

\* C5: when a CAPTCHA was detected and solve_captcha did not report solved,
\* book_viewing returns False, nothing was typed into the form and no submit
\* control was clicked.
C5_CaptchaFailureAborts ==
    /\ (cap.detected_by # 0 =>
          (~typed_any /\ submitted = << >> /\ form = FormNone
             /\ "fill" \notin Range(trace) /\ "submit" \notin Range(trace)))
    /\ ((pc = "done" /\ cap.detected_by # 0) => (ret = "False" /\ result = "False"))

C5_Witness ==
    /\ pc = "done" /\ cap.detected_by # 0 /\ ret = "False" /\ result = "False"
    /\ Len(cap.calls) = 2

\* C6: submit_booking clicks the first control of the chain that can be
\* clicked and nothing after it (at most one submit click per booking); when
\* no control can be clicked, book_viewing returns False and verify_booking
\* does not run.
C6_OneSubmitClick ==
    /\ Len(submitted) <= 1
    /\ (pc = "submit" => submitted = << >>)
    /\ (pc = "submit_return" =>
          IF ret = "True" THEN submitted = << idx >>
          ELSE submitted = << >> /\ idx = NumSubmitSelectors
                 /\ attempt = MaxClickAttempts)
    /\ ((pc = "done" /\ "submit" \in Range(trace) /\ submitted = << >>)
          => (result = "False" /\ "verify" \notin Range(trace)))

C6_Witness ==
    \/ pc = "submit_return" /\ ret = "True" /\ submitted = << 3 >> /\ attempt = 2
    \/ pc = "done" /\ "submit" \in Range(trace) /\ submitted = << >> /\ result = "False"

-----------------------------------------------------------------------------
(* Claims about the search                                                 *)

ResultKeys == { "property_id", "address", "price", "link", "raw_html" }
DetailKeys == { "property_id", "address", "price", "bedrooms", "bathrooms",
                "square_feet", "property_type", "description", "images",
                "agent_info", "showing_times", "raw_html", "url" }

Found == spc = "done" /\ sresult = "found"

\* C7 as amended: in the record find_exact_match returns, every key the
\* search result has (property_id, address, price, raw_html, link) carries
\* the search result's value, and every other key the detail page's value.
C7_ResultFieldsWin ==
    Found =>
        /\ DOMAIN property = DetailKeys \cup ResultKeys
        /\ \A k \in ResultKeys : property[k] = results[ri][k]
        /\ \A k \in DetailKeys \ ResultKeys : property[k] = fetched.detail[k]

C7_Witness ==
    /\ Found
    /\ fetched.detail.property_id = s_d2
    /\ results[ri].property_id = s_r1
    /\ property.property_id = s_r1
    /\ property.address = s_a_toronto
    /\ property.bedrooms = fetched.detail.bedrooms

\* C7 as stated: on the keys both records have, the returned value is the
\* detail page's; the other keys are carried over.
C7_DetailFieldsWin ==
    Found =>
        /\ \A k \in DetailKeys : property[k] = fetched.detail[k]
        /\ \A k \in ResultKeys \ DetailKeys : property[k] = results[ri][k]

\* the condition of the claim on result i: cities equal ignoring case,
\* province codes equal
CityProvinceMatch(i) ==
    LET a == parse_property_address(results[i].address)
    IN  /\ lower(a.city) = lower(components.city)
        /\ a.province = components.province

Eligible(i) == results[i].address # EmptyStr /\ CityProvinceMatch(i)

FailedAt == { f.i : f \in fetched.failed }

\* C8 as amended: find_exact_match returns the record of the first result, in
\* result order, that has an address, matches the query in city (ignoring
\* case) and province code, and whose detail page could be fetched; matching
\* results whose detail fetch failed are passed over; with no such result
\* the search returns None.
C8_FirstFetchedMatch ==
    spc = "done" =>
        /\ sresult \in { "found", "None" }
        /\ sresult = "found" =>
             /\ ri \in 1..Len(results)
             /\ Eligible(ri)
             /\ ri \notin FailedAt
             /\ \A j \in 1..(ri - 1) : Eligible(j) => j \in FailedAt
             /\ fetched.result = results[ri]
        /\ sresult = "None" =>
             \A i \in 1..Len(results) : Eligible(i) => i \in FailedAt

C8_Witness ==
    /\ Found
    /\ Len(results) = 2
    /\ ri = 2
    /\ results[1].address = s_a_ottawa
    /\ results[2].address = s_a_TORONTO
    /\ components.city = SubSeq(s_q_toronto, 9, 15)

\* C8 as stated: the record of the first result whose city and province
\* match is returned; None when the list is empty or nothing matches.
C8_FirstMatchReturned ==
    (spc = "done" /\ ~caught) =>
        LET matching == { i \in 1..Len(results) : CityProvinceMatch(i) }
        IN  IF matching = {}
            THEN sresult = "None"
            ELSE /\ sresult = "found"
                 /\ ri = MinOf(matching)
                 /\ fetched.result = results[ri]

\* C9: book_viewing ends with True or False and search_property_by_address
\* with a record or None, never with an exception; whenever the except
\* clause of one of them ran, the result is False respectively None.
C9_NeverRaises ==
    /\ pc = "done" => result \in { "True", "False" }
    /\ spc = "done" => sresult \in { "found", "None" }
    /\ caught => \/ pc = "done" /\ result = "False"
                 \/ spc = "done" /\ sresult = "None"

C9_Witness ==
    /\ caught
    /\ pc = "done"
    /\ result = "False"
    /\ trace = << "resolve", "navigate", "captcha" >>

\* the value a listing field chain must give: that of the first element
FirstOf(chain, value(_)) ==
    IF \A i \in 1..Len(chain) : chain[i].kind # "element" THEN { EmptyStr }
    ELSE { value(chain[i]) : i \in { n \in 1..Len(chain) :
                                      /\ chain[n].kind = "element"
                                      /\ \A j \in 1..(n - 1) : chain[j].kind # "element" } }

IdOf(e)    == IF e.attr # EmptyStr THEN e.attr ELSE strip(e.text)
TextOf(e)  == strip(e.text)
PriceOf(e) == price_search(strip(e.text))

ListingFieldsFromFirstMatch ==
    Found =>
        /\ fetched.detail.property_id \in FirstOf(fetched.page.ids, IdOf)
        /\ fetched.detail.price \in FirstOf(fetched.page.prices, PriceOf)
        /\ fetched.detail.property_type \in FirstOf(fetched.page.types, TextOf)
        /\ fetched.detail.description \in FirstOf(fetched.page.descs, TextOf)

SubmitFromFirstClick ==
    pc = "submit_return" =>
        /\ ret = "True" => submitted = << idx >>
        /\ ret = "False" => submitted = << >> /\ idx = NumSubmitSelectors

ResultsFromFirstMatch ==
    /\ rchain.first_match # 0 =>
         /\ rchain.evaluated = rchain.first_match
         /\ rchain.used = rchain.first_match
    /\ (spc = "done" /\ rchain.evaluated = NumResultSelectors /\ rchain.first_match = 0
          /\ ~caught)
         => (sresult = "None" /\ results = << >>)

-----------------------------------------------------------------------------
(* The interaction primitives                                              *)

\* C11: safe_click makes at most three attempts; the first attempt that finds
\* the element clickable and completes the script click ends the call with
\* True, so no attempt and no click follows it; False is returned only after
\* three attempts that all failed; the call ends with True or False, never
\* with an exception.
C11_SafeClickAttempts ==
    prim.op = "safe_click" =>
        /\ tries <= MaxClickAttempts
        /\ Len(outcomes) = tries
        /\ clicks <= 1
        /\ \A i \in 1..(tries - 1) : outcomes[i] # "clicked"
        /\ dpc = "running" => tries < MaxClickAttempts /\ clicks = 0 /\ dret = "none"
        /\ dpc = "done" =>
              /\ tries >= 1
              /\ dret \in { "True", "False" }
              /\ dret = "True" <=> outcomes[tries] = "clicked"
              /\ dret = "True" <=> clicks = 1
              /\ dret = "False" => tries = MaxClickAttempts

\* the second attempt clicked, after a first one that failed
C11_Witness ==
    /\ prim.op = "safe_click"
    /\ dpc = "done"
    /\ dret = "True"
    /\ tries = 2
    /\ clicks = 1

-----------------------------------------------------------------------------
(* CAPTCHA solving                                                         *)

\* the page of the booking carries a CAPTCHA: one of the markers of
\* check_for_captcha was found, or an hCaptcha container is in the page
PageShowsCaptcha ==
    \/ cap.detected_by # 0
    \/ cap.g_recaptcha = "present"
    \/ cap.h_captcha \in { "nokey", "key" }

\* C13: with no provider credential configured every CaptchaSolver method
\* (reCAPTCHA v2, hCaptcha, image, base64 image) ends by raising the
\* configuration error and yields no token, no provider call of a booking
\* yields a token, and a booking whose page shows a CAPTCHA ends with False.
C13_NoCredentialNoBooking ==
    /\ (prim.op \in SolverMethods /\ ~prim.configured /\ dpc = "done")
          => answer.kind = "raised" /\ answer.value = EmptyStr
    /\ (pc # "idle" /\ ~api_key) =>
          /\ \A i \in 1..Len(cap.calls) :
                cap.calls[i].raised /\ cap.calls[i].token = EmptyStr
          /\ cap.injected = << >>
          /\ (pc = "done" /\ PageShowsCaptcha) => result = "False"

\* the provider calls of solve_captcha made for a widget found with site key
KeyWidgets == SelectSeq(cap.widgets, LAMBDA w : w.found = "key")

\* C14: solve_captcha returns True only if the provider returned a non-empty
\* token for the site key of the widget found and the current URL and the
\* injection script was executed for it; the provider is called once for each
\* widget found with a site key and never otherwise; when no call gave a
\* token, in particular when no widget with site key was found, solve_captcha
\* returns False.
C14_SolvedOnlyWithToken ==
    pc \in { "solve_hcaptcha", "captcha_return" } =>
        /\ Len(cap.calls) = Len(KeyWidgets)
        /\ \A i \in 1..Len(cap.calls) :
              /\ cap.calls[i].family = KeyWidgets[i].family
              /\ cap.calls[i].site_key = s_key
              /\ cap.calls[i].url = current_url
        /\ Len(cap.injected) <= 1
        /\ pc = "solve_hcaptcha" => cap.injected = << >>
        /\ pc = "captcha_return" =>
              /\ ret \in { "True", "False" }
              /\ ret = "True" <=> cap.injected # << >>
              /\ ret = "True" =>
                    LET last == cap.calls[Len(cap.calls)]
                    IN  /\ cap.calls # << >>
                        /\ ~last.raised
                        /\ last.token # EmptyStr
                        /\ cap.injected = << last.family >>
              /\ (\A i \in 1..Len(cap.calls) : cap.calls[i].token = EmptyStr)
                    => ret = "False"

\* the reCAPTCHA container had no site key, the hCaptcha one was solved
C14_Witness ==
    /\ pc = "captcha_return"
    /\ ret = "True"
    /\ Len(cap.widgets) = 2
    /\ cap.widgets[1].found = "nokey"
    /\ Len(cap.calls) = 1
    /\ cap.calls[1].family = "hcaptcha"
    /\ cap.injected = << "hcaptcha" >>

\* the check for a CAPTCHA has returned
AfterCheck == { "solve_recaptcha", "solve_hcaptcha", "captcha_return", "fill_contact" }

\* C15: for each family, when the page carries that family's widget with a
\* site key and no widget of the other family, check_for_captcha reports a
\* CAPTCHA, and solve_captcha calls that family's provider method with the
\* site key and the current URL.
C15_FamilyDetectedAndCalled ==
    /\ (pc \in AfterCheck /\ cap.g_recaptcha = "present" /\ cap.h_captcha = "none")
          => cap.detected_by # 0
    /\ (/\ pc \in { "solve_hcaptcha", "captcha_return" }
        /\ cap.h_captcha = "none"
        /\ cap.widgets[1] = [ family |-> "recaptcha", found |-> "key" ])
          => /\ cap.calls # << >>
             /\ cap.calls[1].family = "recaptcha"
             /\ cap.calls[1].site_key = s_key
             /\ cap.calls[1].url = current_url
    /\ (pc \in AfterCheck /\ cap.h_captcha = "key" /\ cap.g_recaptcha = "absent")
          => cap.detected_by # 0
    /\ (/\ pc = "captcha_return"
        /\ cap.h_captcha = "key"
        /\ cap.g_recaptcha = "absent"
        /\ \A i \in 1..Len(cap.widgets) : cap.widgets[i].found # "error")
          => \E i \in 1..Len(cap.calls) :
                /\ cap.calls[i].family = "hcaptcha"
                /\ cap.calls[i].site_key = s_key
                /\ cap.calls[i].url = current_url

-----------------------------------------------------------------------------
(* The search flow                                                         *)

Tried(by, ok) == [ by |-> by, ok |-> ok ]

\* the ways a search can have been submitted, as the sequence of the
\* strategies tried and how each ended
OmniboxOnly    == << Tried("omnibox", TRUE) >>
ThenForm       == << Tried("omnibox", FALSE), Tried("form", TRUE) >>
NoLink         == << Tried("omnibox", FALSE), Tried("form", FALSE),
                     Tried("sitewide", FALSE) >>
LinkFollowed   == << Tried("omnibox", FALSE), Tried("form", FALSE),
                     Tried("sitewide", TRUE) >>
OmniboxEntries == SelectSeq(searched, LAMBDA t : t.by = "omnibox")

\* C16: the omnibox is tried first; the structured form is filled only after
\* the omnibox failed, and the generic links are tried only after both
\* failed; behind the first link that could be clicked the omnibox is tried
\* exactly once more and no further link is followed; the omnibox is tried at
\* most twice in a search.
C16_SearchFallbackOrder ==
    /\ omni.runs <= 2
    /\ spc = "omnibox" =>
          /\ searched \in { << >>, LinkFollowed }
          /\ omni.runs = Len(OmniboxEntries) + 1
          /\ omni.caller = IF searched = << >> THEN "main" ELSE "sitewide"
    /\ spc \in { "fill_address", "fill_city", "fill_province", "search_submit" } =>
          /\ searched = << Tried("omnibox", FALSE) >>
          /\ omni.runs = 1
    /\ spc = "sitewide" =>
          /\ searched = << Tried("omnibox", FALSE), Tried("form", FALSE) >>
          /\ omni.runs = 1
    /\ spc = "parse_results" =>
          /\ searched \in { OmniboxOnly, ThenForm, NoLink,
                             Append(LinkFollowed, Tried("omnibox", TRUE)),
                             Append(LinkFollowed, Tried("omnibox", FALSE)) }
          /\ omni.runs = Len(OmniboxEntries)

\* a link was followed and the omnibox behind it failed as well
C16_Witness ==
    /\ spc = "parse_results"
    /\ searched = Append(LinkFollowed, Tried("omnibox", FALSE))
    /\ omni.runs = 2

\* C17: during a search a CAPTCHA detected on the home page or on a detail
\* page does not end the search and calls no CAPTCHA provider; the step that
\* follows the check is the one that follows a check that found nothing: the
\* first omnibox run after the home page, reading the page source after a
\* detail page.
C17_DetectionOnlyLogged ==
    [][ /\ scap' # scap =>
              /\ spc' # "done"
              /\ sresult' = sresult /\ caught' = caught
              /\ UNCHANGED << cap, answer, results, fetched, property, ri >>
        /\ (spc = "check_for_captcha" /\ spc' \notin { spc, "done" }) =>
              /\ spc' = "omnibox"
              /\ sidx' = 1
              /\ omni' = [ caller |-> "main", runs |-> 1 ]
        /\ (spc = "detail_captcha" /\ spc' \notin { spc, "find_exact_match" }) =>
              /\ spc' = "page_source"
              /\ UNCHANGED << ri, fetched >>
        /\ spc # "idle" => cap' = CapNone /\ answer' = AnswerNone
      ]_vars

\* a search that met a CAPTCHA on the home page and on the detail page of
\* its first result, and returned that result's record
C17_Witness ==
    /\ spc = "done"
    /\ sresult = "found"
    /\ scap = { 0, 1 }

-----------------------------------------------------------------------------
(* The address parser                                                      *)

s_Toronto == <<"T","o","r","o","n","t","o">>
s_Calgary == <<"C","a","l","g","a","r","y">>

\* parse_property_address has returned
Parsed == prim.op = "parse_property_address" /\ dpc = "done"

\* the thirteen province and territory codes
ProvinceCodes ==
    { <<"A","B">>, <<"B","C">>, <<"M","B">>, <<"N","B">>, <<"N","L">>, <<"N","S">>, <<"N","T">>, <<"N","U">>, <<"O","N">>, <<"P","E">>, <<"Q","C">>, <<"S","K">>, <<"Y","T">> }

IsCapital(c) == c \in Range(UpperLetters)
IsAnyLetter(c) == c \in Range(UpperLetters) \cup Range(LowerLetters)

\* letter-digit-letter, one space, digit-letter-digit
PostalWithSpace(p) ==
    /\ Len(p) = 7
    /\ IsAnyLetter(p[1]) /\ p[2] \in Digits /\ IsAnyLetter(p[3])
    /\ p[4] = " "
    /\ p[5] \in Digits /\ IsAnyLetter(p[6]) /\ p[7] \in Digits

\* capital-digit-capital, digit-capital-digit, with or without one whitespace
\* character between the halves
PostalUpper(p) ==
    LET h == IF Len(p) = 7 THEN SubSeq(p, 1, 3) \o SubSeq(p, 5, 7) ELSE p
    IN  /\ Len(p) \in { 6, 7 }
        /\ Len(p) = 7 => p[4] \in Whitespace
        /\ IsCapital(h[1]) /\ h[2] \in Digits /\ IsCapital(h[3])
        /\ h[4] \in Digits /\ IsCapital(h[5]) /\ h[6] \in Digits

WellFormedAt(s, i) == i + 6 <= Len(s) /\ PostalWithSpace(SubSeq(s, i, i + 6))

\* the province code stands at position p of s as a word, or its name does
ProvinceTokenAt(s, p, code) ==
    \/ /\ HasAt(upper(s), p, code)
       /\ p = 1 \/ s[p - 1] = " "
       /\ p + Len(code) - 1 = Len(s) \/ s[p + Len(code)] = " "
    \/ HasAt(lower(s), p, lower(get_province_name(code)))

\* C19: for every text that holds a recognised province and a well-formed
\* postal code, the parser returns a non-empty province code and exactly the
\* postal code as it appears in the text.
C19_PostalAsItAppears ==
    (/\ Parsed
     /\ \E c \in ProvinceCodes, p \in 1..Len(raw_text) : ProvinceTokenAt(raw_text, p, c)
     /\ \E i \in 1..Len(raw_text) : WellFormedAt(raw_text, i))
        => /\ address_out.province # EmptyStr
           /\ \E i \in 1..Len(raw_text) :
                 /\ WellFormedAt(raw_text, i)
                 /\ address_out.postal_code = SubSeq(raw_text, i, i + 6)

\* the comma that stands before position p with only whitespace between, 0
\* when there is none
CommaBefore(s, p) ==
    LET js == { j \in 1..(p - 1) :
                  s[j] = "," /\ \A k \in (j + 1)..(p - 1) : s[k] \in Whitespace }
    IN  IF js = {} THEN 0 ELSE CHOOSE j \in js : TRUE

\* the last comma before position j, 0 when there is none
PrevComma(s, j) ==
    LET ks == { k \in 1..(j - 1) : s[k] = "," }
    IN  IF ks = {} THEN 0 ELSE CHOOSE k \in ks : \A m \in ks : m <= k

\* the comma-delimited segment that ends at the comma before position p
SegmentBefore(s, p) ==
    LET j == CommaBefore(s, p)
    IN  strip(SubSeq(s, PrevComma(s, j) + 1, j - 1))

\* everything before that segment
TextBeforeSegment(s, p) ==
    LET k == PrevComma(s, CommaBefore(s, p))
    IN  IF k = 0 THEN EmptyStr ELSE strip(SubSeq(s, 1, k - 1))

\* C20: when a province was matched, the city is the comma-delimited segment
\* immediately preceding the matched province token and the street is
\* everything preceding that city; "10 Navy Wharf Court #3209, Toronto, ON"
\* gives Toronto, ON and no postal code, "123 Main St, Calgary, Alberta
\* T2N 1N4" gives Calgary, AB and T2N 1N4.
C20_CityBeforeProvince ==
    /\ (Parsed /\ address_out.province # EmptyStr) =>
          LET ps == { p \in 1..Len(raw_text) :
                        /\ ProvinceTokenAt(raw_text, p, address_out.province)
                        /\ CommaBefore(raw_text, p) # 0 }
          IN  ps # {} =>
                \E p \in ps :
                    /\ address_out.city = SegmentBefore(raw_text, p)
                    /\ address_out.street = TextBeforeSegment(raw_text, p)
    /\ (Parsed /\ raw_text = s_ex_toronto) =>
          /\ address_out.city = s_Toronto
          /\ address_out.province = <<"O","N">>
          /\ address_out.postal_code = EmptyStr
    /\ (Parsed /\ raw_text = s_ex_calgary) =>
          /\ address_out.city = s_Calgary
          /\ address_out.province = <<"A","B">>
          /\ address_out.postal_code = s_t_postal

\* the name occurs in s, letter case apart
NameOccurs(s, name) ==
    \E p \in 1..Len(s) :
        /\ p + Len(name) - 1 <= Len(s)
        /\ \A k \in 1..Len(name) : lower_char(s[p + k - 1]) = lower_char(name[k])

\* the two-letter code stands at position p of s, letter case apart, with a
\* blank or the edge of the text on either side
BareCodeAt(s, p, code) ==
    /\ p + 1 <= Len(s)
    /\ upper_char(s[p]) = code[1] /\ upper_char(s[p + 1]) = code[2]
    /\ p = 1 \/ s[p - 1] = " "
    /\ p + 1 = Len(s) \/ s[p + 2] = " "

NamesIn(s) == { i \in 1..Len(province_names) : NameOccurs(s, province_names[i].name) }

\* C21: full province names, in any letter case, are tried before bare
\* two-letter codes: when the text holds a full name the code returned is
\* the code of a name it holds (the first of them in the order of the name
\* table), whatever bare codes stand in the text; a bare code is returned
\* only when no full name occurs, and then only a code that stands in the
\* text between blanks (the edges of the text counting as blanks); when a
\* name or such a code occurs a province is returned.
C21_NamesBeforeCodes ==
    Parsed =>
        LET named == NamesIn(raw_text)
            coded == { c \in ProvinceCodes :
                         \E p \in 1..Len(raw_text) : BareCodeAt(raw_text, p, c) }
        IN  /\ named # {} =>
                  address_out.province = province_names[MinOf(named)].code
            /\ named = {} => address_out.province \in coded \cup { EmptyStr }
            /\ (named = {} /\ coded # {}) => address_out.province \in coded
            /\ (named = {} /\ coded = {}) => address_out.province = EmptyStr

\* Ontario by name next to the bare code of British Columbia
C21_Witness ==
    /\ Parsed
    /\ NameOccurs(raw_text, s_t_ontario)
    /\ \E p \in 1..Len(raw_text) : BareCodeAt(raw_text, p, <<"B","C">>)
    /\ address_out.province = <<"O","N">>

\* C22: parse_property_address returns a record of the five fields for every
\* text; a field whose stage found nothing is the empty string (no postal
\* code without a digit, no province without a name or a bare code, no city
\* and no street without a comma); city is non-empty only if province is,
\* street only if city is, and full_address is the input without the
\* whitespace at its ends.
C22_FieldsEmptyOrMatched ==
    Parsed =>
        /\ DOMAIN address_out = { "street", "city", "province", "postal_code", "full_address" }
        /\ (\A i \in 1..Len(raw_text) : raw_text[i] \notin Digits)
              => address_out.postal_code = EmptyStr
        /\ (\A i \in 1..Len(raw_text) : raw_text[i] # ",")
              => address_out.city = EmptyStr /\ address_out.street = EmptyStr
        /\ (/\ NamesIn(raw_text) = {}
            /\ \A c \in ProvinceCodes, p \in 1..Len(raw_text) : ~BareCodeAt(raw_text, p, c))
              => address_out.province = EmptyStr
        /\ address_out.city # EmptyStr => address_out.province # EmptyStr
        /\ address_out.street # EmptyStr => address_out.city # EmptyStr
        /\ \E a, b \in 0..Len(raw_text) :
              /\ a + b <= Len(raw_text)
              /\ address_out.full_address = SubSeq(raw_text, a + 1, Len(raw_text) - b)
              /\ \A i \in (1..a) \cup ((Len(raw_text) - b + 1)..Len(raw_text)) :
                    raw_text[i] \in Whitespace
              /\ address_out.full_address # EmptyStr =>
                    /\ address_out.full_address[1] \notin Whitespace
                    /\ address_out.full_address[Len(address_out.full_address)] \notin Whitespace

\* a text with a comma but no province: city and street stay empty
C22_Witness ==
    /\ Parsed
    /\ raw_text = s_t_toronto \o s_t_street
    /\ address_out.province = EmptyStr
    /\ address_out.city = EmptyStr
    /\ address_out.street = EmptyStr
    /\ address_out.full_address = SubSeq(raw_text, 1, Len(raw_text) - 1)

-----------------------------------------------------------------------------
(* Time slots                                                              *)

s_1430  == <<"1","4",":","3","0">>
s_0000  == <<"0","0",":","0","0">>

\* parse_time_slot has returned
TimeParsed == prim.op = "parse_time_slot" /\ dpc \in { "parsed", "done" }

\* HH:MM with HH in 00..23 and MM in 00..59
ValidHHMM(t) ==
    /\ Len(t) = 5
    /\ t[3] = ":"
    /\ \/ t[1] \in { "0", "1" } /\ t[2] \in Digits
       \/ t[1] = "2" /\ t[2] \in { "0", "1", "2", "3" }
    /\ t[4] \in { "0", "1", "2", "3", "4", "5" }
    /\ t[5] \in Digits

\* C23: for every text that matches one of the four patterns the time
\* returned by parse_time_slot has the form HH:MM, zero-padded, with HH in
\* 00..23 and MM in 00..59.
C23_ValidTime ==
    (TimeParsed /\ time_slot.kind = "slot") => ValidHHMM(time_slot.time)

\* C24: parsing a time that parse_time_slot returned gives a slot with the
\* same time.
C24_Idempotent ==
    (prim.op = "parse_time_slot" /\ dpc = "done" /\ time_slot.kind = "slot")
        => time_again.kind = "slot" /\ time_again.time = time_slot.time

\* the 24-hour value of an hour read next to a period, or without one
Hour24(h, period) ==
    IF period = EmptyStr THEN h
    ELSE IF h = 12 THEN (IF period = << "A", "M" >> THEN 0 ELSE 12)
    ELSE IF period = << "P", "M" >> THEN h + 12
    ELSE h

\* the patterns that match raw_text, by their place in time_patterns
Matching == { k \in 1..4 : pattern_search(k, raw_text).ok }

\* C25: the result of parse_time_slot comes from the first of the patterns
\* HH:MM AM/PM, H AM/PM, HH:MM, HHhMM that matches the text; next to AM/PM
\* hour 12 AM becomes 00, 12 PM stays 12, any other PM hour h becomes h + 12
\* and any other AM hour is kept; "2:30 PM" gives 14:30 and "12 AM" gives
\* 00:00; a text no pattern matches gives no slot.
C25_FirstPatternWins ==
    TimeParsed =>
        /\ Matching = {} <=> time_slot.kind = "None"
        /\ Matching # {} =>
              LET k == MinOf(Matching)
                  m == pattern_search(k, raw_text)
              IN  /\ time_slot.kind = "slot"
                  /\ time_slot.time =
                        format_02d(Hour24(to_int(m.hour), m.period)) \o << ":" >> \o
                        (IF k = 2 THEN << "0", "0" >> ELSE m.minute)
                  /\ m.period # EmptyStr <=> k \in { 1, 2 }
        /\ raw_text = s_230pm => time_slot.time = s_1430
        /\ raw_text = s_12am => time_slot.time = s_0000

\* "9 AM 2:30 PM": the first pattern matches behind the place where the
\* second one does, and decides
C25_Witness ==
    /\ TimeParsed
    /\ raw_text = <<"9"," ","A","M"," ","2",":","3","0"," ","P","M">>
    /\ Matching = { 1, 2, 3 }
    /\ time_slot.time = s_1430

-----------------------------------------------------------------------------
(* Schedules *)

\* the date a YYYY-MM-DD string spells
DateOf(s) ==
    [ year  |-> to_int(SubSeq(s, 1, 4)),
      month |-> to_int(SubSeq(s, 6, 7)),
      day   |-> to_int(SubSeq(s, 9, 10)) ]

IsYMD(s) ==
    /\ Len(s) = 10
    /\ s[5] = "-" /\ s[8] = "-"
    /\ \A p \in { 1, 2, 3, 4, 6, 7, 9, 10 } : s[p] \in Digits

\* the calendar, spelled out for the years the start dates lie in
LastDayOf(y, m) ==
    IF m = 2 THEN (IF y \in { 2000, 2024 } THEN 29 ELSE 28)
    ELSE IF m \in { 4, 6, 9, 11 } THEN 30 ELSE 31

NextDay(d) ==
    IF d.day < LastDayOf(d.year, d.month) THEN [ d EXCEPT !.day = d.day + 1 ]
    ELSE IF d.month < 12 THEN [ d EXCEPT !.month = d.month + 1, !.day = 1 ]
    ELSE [ year |-> d.year + 1, month |-> 1, day |-> 1 ]

\* the weekday of every start date, from the calendar
KnownWeekdays ==
    { << [ year |-> 2024, month |-> 2, day |-> 25 ], <<"S","u","n","d","a","y">> >>,
      << [ year |-> 2023, month |-> 2, day |-> 25 ], <<"S","a","t","u","r","d","a","y">> >>,
      << [ year |-> 2025, month |-> 12, day |-> 28 ], <<"S","u","n","d","a","y">> >>,
      << [ year |-> 2026, month |-> 11, day |-> 3 ], <<"T","u","e","s","d","a","y">> >>,
      << [ year |-> 2100, month |-> 2, day |-> 25 ], <<"T","h","u","r","s","d","a","y">> >>,
      << [ year |-> 2000, month |-> 2, day |-> 26 ], <<"S","a","t","u","r","d","a","y">> >>,
      << [ year |-> 2024, month |-> 4, day |-> 27 ], <<"S","a","t","u","r","d","a","y">> >>,
      << [ year |-> 2024, month |-> 7, day |-> 29 ], <<"M","o","n","d","a","y">> >> }

NextName(name) ==
    LET k == CHOOSE j \in 1..7 : DayNames[j] = name
    IN  DayNames[(k % 7) + 1]

HalfHourGrid ==
    << <<"0","9",":","0","0">>,
       <<"0","9",":","3","0">>,
       <<"1","0",":","0","0">>,
       <<"1","0",":","3","0">>,
       <<"1","1",":","0","0">>,
       <<"1","1",":","3","0">>,
       <<"1","2",":","0","0">>,
       <<"1","2",":","3","0">>,
       <<"1","3",":","0","0">>,
       <<"1","3",":","3","0">>,
       <<"1","4",":","0","0">>,
       <<"1","4",":","3","0">>,
       <<"1","5",":","0","0">>,
       <<"1","5",":","3","0">>,
       <<"1","6",":","0","0">>,
       <<"1","6",":","3","0">>,
       <<"1","7",":","0","0">> >>

TimesOf(slots) == [ j \in 1..Len(slots) |-> slots[j].time ]

ConsecutiveFrom(start) ==
    /\ Len(schedule) = 7
    /\ \A i \in 1..7 : IsYMD(schedule[i].date)
    /\ DateOf(schedule[1].date) = start
    /\ \A i \in 2..7 : DateOf(schedule[i].date) = NextDay(DateOf(schedule[i - 1].date))
    /\ << start, schedule[1].day_name >> \in KnownWeekdays
    /\ \A i \in 2..7 : schedule[i].day_name = NextName(schedule[i - 1].day_name)

DefaultGrid(slots) ==
    /\ TimesOf(slots) = HalfHourGrid
    /\ \A j \in 1..Len(slots) : slots[j].available

Generated == dpc = "done" /\ prim.op = "generate_7_day_schedule"
Fetched   == dpc = "done" /\ prim.op = "get_7_day_schedule"

\* C26: generate_7_day_schedule(start) returns exactly 7 entries; entry i
\* (0..6) carries the date start + i days as YYYY-MM-DD and that date's
\* weekday name; the slots of every entry are the half-hour grid from 09:00
\* to 17:00 inclusive (17 slots, strictly increasing, none after 17:00), all
\* marked available.
C26_SevenDayGrid ==
    Generated =>
        /\ ConsecutiveFrom(start_date)
        /\ \A i \in 1..7 : DefaultGrid(schedule[i].time_slots)

C26_Witness ==
    /\ Generated
    /\ start_date = [ year |-> 2024, month |-> 2, day |-> 25 ]
    /\ schedule[5].date = <<"2","0","2","4","-","0","2","-","2","9">>
    /\ schedule[7].date = <<"2","0","2","4","-","0","3","-","0","2">>
    /\ schedule[7].day_name = <<"S","a","t","u","r","d","a","y">>
    /\ Len(schedule[7].time_slots) = 17

\* C27: get_7_day_schedule returns 7 entries with consecutive dates rooted
\* at today; when the property record has no observed slots every entry
\* carries the default grid, otherwise every entry carries exactly the
\* observed slot sequence, in the same order.
C27_ObservedOrDefault ==
    Fetched =>
        /\ ConsecutiveFrom(start_date)
        /\ \A i \in 1..7 :
               IF property_rec.showing_times = << >>
               THEN DefaultGrid(schedule[i].time_slots)
               ELSE schedule[i].time_slots = property_rec.showing_times

C27_Witness ==
    /\ Fetched
    /\ Len(property_rec.showing_times) = 2
    /\ property_rec.showing_times[1].time = s_0000
    /\ Len(schedule) = 7
    /\ TimesOf(schedule[7].time_slots) = << s_0000, s_1430 >>

-----------------------------------------------------------------------------
(* Sessions *)

\* the headers, cookies and proxies of a session set up and not yet used
FreshlySetUp(s) ==
    /\ ~s.closed
    /\ s.cookies = {}
    /\ DOMAIN s.headers = DOMAIN DEFAULT_HEADERS \cup { "User-Agent" }
    /\ \A k \in DOMAIN DEFAULT_HEADERS : s.headers[k] = DEFAULT_HEADERS[k]
    /\ s.headers["User-Agent"] \in UserAgents
    /\ IF proxy_list = << >> THEN DOMAIN s.proxies = {}
       ELSE /\ DOMAIN s.proxies = { "http", "https" }
            /\ \E i \in 1..Len(proxy_list) :
                 \A k \in { "http", "https" } : s.proxies[k] = << "http://", proxy_list[i] >>

\* C28: after reset_session the active session is a newly created object
\* distinct from the prior one, the prior session has been closed, and the
\* new session carries none of the cookies and headers the prior one
\* accumulated: it holds the default headers, a chosen identity and, when a
\* pool is configured, an egress address of the pool, and nothing else.
C28_ResetGivesFreshSession ==
    [][ created' # created =>
          /\ anti'.session.id # anti.session.id
          /\ anti'.session.id > created
          /\ prior'.id = anti.session.id
          /\ prior'.closed
          /\ prior'.cookies = anti.session.cookies
          /\ prior'.headers = anti.session.headers
          /\ FreshlySetUp(anti'.session) ]_vars

C28_Witness ==
    /\ apc = "ready"
    /\ created > 1
    /\ prior.closed
    /\ "sessionid" \in prior.cookies
    /\ "Referer" \in DOMAIN prior.headers
    /\ anti.session.id # prior.id
    /\ anti.session.cookies = {}
    /\ "Referer" \notin DOMAIN anti.session.headers
    /\ DOMAIN anti.session.proxies # {}

\* C29: every session initialisation (at construction and at each reset)
\* leaves a chosen identity string on the session and, when the pool is
\* non-empty, the next pool entry as egress address: the k-th rotation since
\* construction sets pool[(k-1) mod n], resets included. With an empty pool
\* no egress address is set and the rotation index stays as it was.
C29_RoundRobin ==
    apc = "ready" =>
        /\ anti.session.headers["User-Agent"] \in UserAgents
        /\ IF proxy_list = << >>
           THEN /\ anti.proxy_index = 0
                /\ rotated = << >>
                /\ DOMAIN anti.session.proxies = {}
           ELSE /\ Len(rotated) = created + rotate_calls
                /\ anti.proxy_index = Len(rotated)
                /\ \A k \in 1..Len(rotated) :
                     \A scheme \in { "http", "https" } :
                       rotated[k][scheme]
                         = << "http://", proxy_list[((k - 1) % Len(proxy_list)) + 1] >>
                /\ anti.session.proxies = rotated[Len(rotated)]

C29_Witness ==
    /\ apc = "ready"
    /\ Len(proxy_list) = 3
    /\ created = 3
    /\ rotate_calls = 1
    /\ Len(rotated) = 4
    /\ rotated[4] = rotated[1]
    /\ rotated[3] # rotated[1]

-----------------------------------------------------------------------------
(* Booking URL resolution *)

\* C30: with a non-empty property_id the booking URL is the base URL
\* followed by /book/{property_id} and the listing page is not visited; with
\* an empty property_id and a known listing URL the listing page is loaded and
\* the URL is the href of the first element, in the order of the link
\* selectors, that has a non-empty href; when no URL results book_viewing
\* returns False without loading any page.
C30_BookingUrlResolution ==
    [][ /\ (pc = "get_booking_url" /\ property_data.property_id # EmptyStr) =>
             /\ pc' = "resolved"
             /\ booking_url' = property_data.base_url \o <<"/","b","o","o","k","/">>
                                 \o property_data.property_id
             /\ current_url' = current_url
             /\ link' = LinkNone
        /\ (pc = "get_booking_url" /\ property_data.property_id = EmptyStr
               /\ property_data.url # EmptyStr) =>
             \/ pc' = "link_loop" /\ current_url' = property_data.url /\ idx' = 1
             \/ pc' = "resolved" /\ booking_url' = EmptyStr
        /\ (pc = "get_booking_url" /\ property_data.property_id = EmptyStr
               /\ property_data.url = EmptyStr) =>
             /\ pc' = "resolved"
             /\ booking_url' = EmptyStr
             /\ current_url' = current_url
        /\ pc = "link_loop" =>
             /\ current_url = property_data.url
             /\ pc' = "link_loop" => (link'.used = 0 /\ idx' = idx + 1)
             /\ pc' # "link_loop" =>
                  /\ pc' = "resolved"
                  /\ IF link'.used # 0
                     THEN link'.used = idx /\ booking_url' \in Hrefs
                     ELSE booking_url' = EmptyStr
        /\ (pc = "resolved" /\ booking_url = EmptyStr) =>
             /\ pc' = "done"
             /\ result' = "False"
             /\ current_url' = current_url
             /\ trace' = trace
        /\ (pc = "resolved" /\ booking_url # EmptyStr) =>
             current_url' \in { booking_url, current_url } ]_vars

C30_Witness ==
    /\ pc = "resolved"
    /\ property_data.property_id = s_7
    /\ property_data.base_url = s_base
    /\ booking_url = <<"h",":","/","/","b","/","b","o","o","k","/","7">>
    /\ current_url = EmptyStr
    /\ link = LinkNone

-----------------------------------------------------------------------------
(* The booking form *)

ContactNames == { ContactFields[i] : i \in 1..Len(ContactFields) }

-----------------------------------------------------------------------------
(* The time control *)

TimeChosen == dpc = "done" /\ prim.op = "select_time_option"

ValueEquals  == { i \in 1..Len(select_el.options) : select_el.options[i].value = requested }
TextEquals   == { i \in 1..Len(select_el.options) : select_el.options[i].text = requested }
TextOverlaps == { i \in 1..Len(select_el.options) :
                    contains(select_el.options[i].text, requested)
                    \/ contains(requested, select_el.options[i].text) }

FirstOfSet(set) == selection.index \in set /\ \A i \in set : selection.index <= i

\* C32: select_time_option selects the option whose value equals the
\* requested time if there is one; otherwise the option whose visible text
\* equals it; otherwise the first option, in option order, whose text
\* contains the requested time or is contained in it; it returns False and
\* selects nothing when no option qualifies or the control is absent.
C32_TimeOptionPriority ==
    TimeChosen =>
        IF select_el.kind # "select" THEN selection = NoSelection
        ELSE IF ValueEquals # {} THEN selection.ok /\ FirstOfSet(ValueEquals)
        ELSE IF TextEquals # {} THEN selection.ok /\ FirstOfSet(TextEquals)
        ELSE IF TextOverlaps # {} THEN selection.ok /\ FirstOfSet(TextOverlaps)
        ELSE selection = NoSelection

C32_Witness ==
    /\ TimeChosen
    /\ Len(select_el.options) = 3
    /\ ValueEquals = { 3 }
    /\ TextEquals = { 2 }
    /\ 1 \in TextOverlaps
    /\ selection.ok
    /\ selection.index = 3

-----------------------------------------------------------------------------
(* Backoff *)

\* C33: whenever an attempt of safe_click fails and a further attempt
\* follows, a random pause is taken between the two, after a timeout of
\* wait_for_clickable as well as after an exception.
C33_BackoffBetweenAttempts ==
    prim.op = "safe_click" =>
        \A k \in 1..(Len(outcomes) - 1) :
            outcomes[k] # "clicked" => pauses[k] # NoPause

-----------------------------------------------------------------------------
(* Results of a search that was never submitted *)

\* C34: search_property_by_address returns a property only if a search
\* submission succeeded in this run (omnibox, structured form, or the omnibox
\* behind a followed link); when every search path failed, the entries of the
\* page that was never searched are not taken for results.
C34_FoundOnlyAfterSubmission ==
    /\ Found => search_submitted
    /\ (spc = "find_exact_match" /\ results # << >>) => search_submitted

\* C35: every record find_exact_match returns comes from a result whose
\* parsed city and parsed province code are both non-empty and equal to the
\* query's; a query whose address yields an empty city or province matches
\* no result.
C35_MatchNeedsCityAndProvince ==
    Found =>
        LET result_address == parse_property_address(results[ri].address)
        IN  /\ components.city # EmptyStr
            /\ components.province # EmptyStr
            /\ result_address.city # EmptyStr
            /\ result_address.province = components.province

-----------------------------------------------------------------------------
(* Showing times *)

\* C36: parse_showing_times returns at most one slot per slot element of the
\* markup: an element matched by several selectors of the chain is reported
\* once, so the number of slots never exceeds the number of elements.
C36_OneSlotPerElement ==
    (dpc = "done" /\ prim.op = "parse_showing_times") =>
        Len(showing_times) <= Len(markup)

-----------------------------------------------------------------------------
(* Date and time before the submit *)

\* C37: a booking is submitted only after the requested date was typed into
\* a date field and the requested time was selected in a time control: when a
\* non-empty date or time could not be entered, fill_booking_form returns
\* False and book_viewing does not go on to the submit click.
C37_SubmitNeedsDateAndTime ==
    [][ (pc = "fill_return" /\ pc' = "submit") =>
          /\ selected_time.date # EmptyStr => "date" \in form.typed
          /\ selected_time.time # EmptyStr => form.time_selected ]_vars

-----------------------------------------------------------------------------
(* Display text and time *)

TwoDigits(n) == << DigitChars[(n \div 10) + 1], DigitChars[(n % 10) + 1] >>

\* C38: for every hour 0..23 and minute 0..59 the display text
\* format_time_display makes parses back, with parse_time_slot, to the
\* zero-padded HH:MM of that hour and minute; every slot of the default grid
\* has a display text that parses back to its own time.
C38_DisplayRoundTrip ==
    /\ (dpc = "done" /\ prim.op = "format_time_display") =>
          /\ display_slot.kind = "slot"
          /\ display_slot.time = TwoDigits(clock.hour) \o << ":" >> \o TwoDigits(clock.minute)
    /\ Generated =>
          \A i \in 1..Len(schedule) : \A j \in 1..Len(schedule[i].time_slots) :
              parse_time_slot(schedule[i].time_slots[j].display).time
                  = schedule[i].time_slots[j].time

C38_Witness ==
    /\ dpc = "done"
    /\ prim.op = "format_time_display"
    /\ clock = [ hour |-> 0, minute |-> 5 ]
    /\ display_text = <<"1","2",":","0","5"," ","A","M">>
    /\ display_slot.time = <<"0","0",":","0","5">>

-----------------------------------------------------------------------------
(* Claims about persistence of a booking (main.book_viewing)               *)

Returned == mpc = "returned"
RowsOf(seq) == { seq[i] : i \in 1..Len(seq) }

\* C39: a booking record is handed to save_booking only when
\* BookingSystem.book_viewing returned True, and at most once in an
\* invocation; when the property is unknown or the booking returned False
\* (no URL, CAPTCHA not solved, no submit control, not verified, exception)
\* nothing is handed over and the bookings table stays empty.
C39_PersistedOnlyOnSuccess ==
    /\ Len(saved) <= 1
    /\ RowsOf(bookings) \subseteq RowsOf(saved)
    /\ saved # << >> => (Returned /\ pc = "done" /\ result = "True" /\ main_result = "True")
    /\ (Returned /\ result # "True") =>
          (saved = << >> /\ bookings = << >> /\ main_result = "False")
    /\ (Returned /\ result = "True") =>
          saved = << save_booking(property_data.property_id,
                                  booking_data_of(selected_time, contact_info)) >>

C39_Witness ==
    /\ Returned
    /\ result = "True"
    /\ Len(saved) = 1
    /\ bookings = saved

====
